---------------------------- MODULE Spec2Model ----------------------------
(***************************************************************************)
(* A model of rlox: the single-pass Pratt compiler (src/src/compiler.rs),  *)
(* the bytecode chunk (src/src/bytecode.rs) and the stack VM               *)
(* (src/src/vm.rs).                                                        *)
(*                                                                         *)
(* The compiler is a recursive-descent procedure; it is modelled by        *)
(* recursive operators that thread the compiler record `c` through the     *)
(* calls exactly as the Rust methods thread `&mut self`.  A Rust           *)
(* `Result<()>` is the field c.res ("Ok" / "Err"), a Rust panic            *)
(* (unwrap on None, unreachable!, index out of bounds) is c.res = "Panic". *)
(***************************************************************************)
EXTENDS Integers, Sequences, FiniteSets, TLC

VARIABLES src, phase, comp, vm, scanner

vars == <<src, phase, comp, vm, scanner>>

(***************************************************************************)
(* Widths of the integer types of the source.                              *)
(***************************************************************************)
U16 == 65536
U8 == 256

\* Option::None of an Option<u16> / Option<u32> / Option<usize>
NoneVal == 0 - 1

(***************************************************************************)
(* token.rs: tokens                                                     *)
(***************************************************************************)
Token(kind, lex, num, line) == [kind |-> kind, lex |-> lex, num |-> num, line |-> line]

TokenNone == Token("None", "", 0, 0)

\* A token of the given kind on line 1
T(kind) == Token(kind, "", 0, 1)
Ident(name) == Token("Identifier", name, 0, 1)
Num(n) == Token("Number", "", n, 1)
Str(s) == Token("String", s, 0, 1)

(***************************************************************************)
(* scanner.rs: the Scanner over the bytes of the source.  A byte is a      *)
(* string of one character.  byte_iter has handed out                      *)
(* Min(current, Len(source)) bytes; res, tok and err carry the Result of   *)
(* scan_token; returned is a history field that no method reads: what the  *)
(* calls of scan_token have returned so far, an Err as a token of kind     *)
(* "ScanError"                                                             *)
(***************************************************************************)
ScannerNew(source) ==
    [source |-> source, start |-> 0, current |-> 0, line |-> 1,
     res |-> "Ok", tok |-> TokenNone, err |-> "", flag |-> FALSE, returned |-> <<>>]

\* the scanner of a program that is given as the tokens it delivers (src)
ScannerNone == ScannerNew(<<>>)

\* Option::None of an Option<u8>: no byte
NoChar == ""

scanner_advance(s) == [s EXCEPT !.current = @ + 1]

scanner_peek(s) == IF s.current < Len(s.source) THEN s.source[s.current + 1] ELSE NoChar

\* the bool match_next returns is the field flag
match_next(s, expected) ==
    IF scanner_peek(s) = expected THEN [scanner_advance(s) EXCEPT !.flag = TRUE]
    ELSE [s EXCEPT !.flag = FALSE]

\* &self.source[from..to] (0-based, to exclusive)
RECURSIVE Slice(_, _, _)
Slice(source, from, to) ==
    IF from >= to THEN "" ELSE source[from + 1] \o Slice(source, from + 1, to)

make_token(s, kind) ==
    [s EXCEPT !.res = "Ok", !.tok = Token(kind, "", 0, s.line)]

make_token_match(s, to_match, default, matched) ==
    LET m == match_next(s, to_match)
    IN  make_token(m, IF m.flag THEN matched ELSE default)

scanner_error(s, msg) == [s EXCEPT !.res = "Err", !.err = msg]

Digits == {"0", "1", "2", "3", "4", "5", "6", "7", "8", "9"}
Letters ==
    {"a", "b", "c", "d", "e", "f", "g", "h", "i", "j", "k", "l", "m", "n", "o", "p", "q",
     "r", "s", "t", "u", "v", "w", "x", "y", "z", "A", "B", "C", "D", "E", "F", "G", "H",
     "I", "J", "K", "L", "M", "N", "O", "P", "Q", "R", "S", "T", "U", "V", "W", "X", "Y",
     "Z", "_"}

\* make_string: up to the closing quote; the lexeme is what lies between
RECURSIVE make_string(_)
make_string(s) ==
    CASE scanner_peek(s) = "\"" ->
            LET a == scanner_advance(s) IN
            [a EXCEPT !.res = "Ok",
                      !.tok = Token("String", Slice(a.source, a.start + 1, a.current - 1),
                                    0, a.line)]
      [] scanner_peek(s) = NoChar -> scanner_error(s, "Unterminated string.")
      [] scanner_peek(s) = "\n" -> make_string(scanner_advance([s EXCEPT !.line = @ + 1]))
      [] OTHER -> make_string(scanner_advance(s))

RECURSIVE skip_digits(_)
skip_digits(s) ==
    IF scanner_peek(s) \in Digits THEN skip_digits(scanner_advance(s)) ELSE s

DigitValue(ch) == CHOOSE n \in 0..9 : ToString(n) = ch

\* str::parse of the digits source[from..to]: the number they spell
RECURSIVE ParseDigits(_, _, _)
ParseDigits(source, from, to) ==
    IF from >= to THEN 0
    ELSE 10 * ParseDigits(source, from, to - 1) + DigitValue(source[to])

\* make_number: digits, then a `.` and digits if a `.` follows.  Numbers
\* are integers here: the value of a lexeme with a fraction is its integer
\* part, the fraction stays in the lexeme
make_number(s) ==
    LET i == skip_digits(s)
        f == IF scanner_peek(i) = "." THEN skip_digits(scanner_advance(i)) ELSE i
    IN  [f EXCEPT !.res = "Ok",
                  !.tok = Token("Number", Slice(f.source, f.start, f.current),
                                ParseDigits(f.source, f.start, i.current), f.line)]

RECURSIVE skip_identifier(_)
skip_identifier(s) ==
    IF scanner_peek(s) \in Letters \cup Digits THEN skip_identifier(scanner_advance(s)) ELSE s

\* make_identifier's match with check_keyword: the keyword a lexeme spells
Keywords ==
    [lexeme \in {"and", "class", "else", "false", "for", "fun", "if", "nil", "or", "print",
                 "return", "super", "this", "true", "var", "while"} |->
        CASE lexeme = "and" -> "And" [] lexeme = "class" -> "Class"
          [] lexeme = "else" -> "Else" [] lexeme = "false" -> "False"
          [] lexeme = "for" -> "For" [] lexeme = "fun" -> "Fun"
          [] lexeme = "if" -> "If" [] lexeme = "nil" -> "Nil"
          [] lexeme = "or" -> "Or" [] lexeme = "print" -> "Print"
          [] lexeme = "return" -> "Return" [] lexeme = "super" -> "Super"
          [] lexeme = "this" -> "This" [] lexeme = "true" -> "True"
          [] lexeme = "var" -> "Var" [] lexeme = "while" -> "While"]

make_identifier(s) ==
    LET i == skip_identifier(s)
        lexeme == Slice(i.source, i.start, i.current)
    IN  IF lexeme \in DOMAIN Keywords THEN make_token(i, Keywords[lexeme])
        ELSE [i EXCEPT !.res = "Ok", !.tok = Token("Identifier", lexeme, 0, i.line)]

SingleCharKinds ==
    [ch \in {"(", ")", "{", "}", ",", ".", "-", "+", ";", "*"} |->
        CASE ch = "(" -> "LeftParen" [] ch = ")" -> "RightParen"
          [] ch = "{" -> "LeftBrace" [] ch = "}" -> "RightBrace"
          [] ch = "," -> "Comma" [] ch = "." -> "Dot"
          [] ch = "-" -> "Minus" [] ch = "+" -> "Plus"
          [] ch = ";" -> "Semicolon" [] ch = "*" -> "Star"]

\* scan_token after skip_whitespace has returned Ok
scan_lexeme(s) ==
    LET b == [s EXCEPT !.start = s.current]
        ch == scanner_peek(b)
        a == scanner_advance(b)
    IN  CASE ch = NoChar -> make_token(a, "Eof")
          [] ch \in DOMAIN SingleCharKinds -> make_token(a, SingleCharKinds[ch])
          [] ch = "!" -> make_token_match(a, "=", "Bang", "BangEqual")
          [] ch = "=" -> make_token_match(a, "=", "Equal", "EqualEqual")
          [] ch = "<" -> make_token_match(a, "=", "Less", "LessEqual")
          [] ch = ">" -> make_token_match(a, "=", "Greater", "GreaterEqual")
          [] ch = "\"" -> make_string(a)
          [] ch \in Digits -> make_number(a)
          [] ch \in Letters -> make_identifier(a)
          [] OTHER -> scanner_error(a, "Unexpected character")

\* the Result a call of scan_token has returned, as the compiler's advance
\* and synchronize see it
Returned(s) ==
    [s EXCEPT !.returned = Append(@, IF s.res = "Ok" THEN s.tok
                                     ELSE Token("ScanError", s.err, 0, s.line))]

\* bytecode.rs: enum Precedence, in declaration order
PrecNone == 0
PrecAssignment == 1
PrecOr == 2
PrecAnd == 3
PrecEquality == 4
PrecComparison == 5
PrecTerm == 6
PrecFactor == 7
PrecUnary == 8
PrecCall == 9
PrecPrimary == 10

higher(p) == IF p >= PrecCall THEN PrecPrimary ELSE p + 1

precedence(kind) ==
    CASE kind \in {"Slash", "Star"} -> PrecFactor
      [] kind = "Bang" -> PrecUnary
      [] kind \in {"EqualEqual", "BangEqual"} -> PrecEquality
      [] kind \in {"Greater", "Less", "GreaterEqual", "LessEqual"} -> PrecComparison
      [] kind \in {"Plus", "Minus"} -> PrecTerm
      [] kind = "Equal" -> PrecAssignment
      [] kind = "And" -> PrecAnd
      [] kind = "Or" -> PrecOr
      [] OTHER -> PrecNone

(***************************************************************************)
(* bytecode.rs: values, opcodes, chunks, functions                         *)
(***************************************************************************)
Value(t, n, s) == [t |-> t, n |-> n, s |-> s]
Number(n) == Value("Number", n, "")
String(s) == Value("String", 0, s)
Function(id) == Value("Function", id, "")
Boolean(b) == Value("Boolean", IF b THEN 1 ELSE 0, "")
Nil == Value("Nil", 0, "")

\* A truthiness under which only true is truthy
is_truthy_only_true(v) ==
    v.t = "Boolean" /\ v.n = 1

is_truthy(v) ==
    CASE v.t = "Nil" -> FALSE
      [] v.t = "Boolean" -> v.n = 1
      [] OTHER -> TRUE

\* An equality under which the two falsy values are equal
ValueEq_falsy_alike(a, b) ==
    \/ a = b
    \/ {a, b} = {Nil, Boolean(FALSE)}

\* impl PartialEq for Value
ValueEq(a, b) ==
    CASE a.t = "Number" /\ b.t = "Number" -> a.n = b.n
      [] a.t = "Boolean" /\ b.t = "Boolean" -> a.n = b.n
      [] a.t = "String" /\ b.t = "String" -> a.s = b.s
      [] a.t = "Nil" /\ b.t = "Nil" -> TRUE
      [] a.t = "Function" /\ b.t = "Function" -> a.n = b.n
      [] OTHER -> FALSE

\* An opcode with its operand; arg = NoneVal is an unresolved jump operand
Op(op, arg) == [op |-> op, arg |-> arg]
Op0(op) == Op(op, 0)

ChunkNew == [code |-> <<>>, constants |-> <<>>, lines |-> <<>>]

\* write_ins that records no line
write_ins_without_line(chunk, ins, line) == [chunk EXCEPT !.code = Append(@, ins)]

write_ins(chunk, ins, line) ==
    [chunk EXCEPT !.lines = Append(@, line), !.code = Append(@, ins)]

\* Chunk::add_const: the new pool and the id it returns, cast to u16
add_const_pool(chunk, value) == [chunk EXCEPT !.constants = Append(@, value)]
add_const_id(chunk) == Len(chunk.constants) % U16

add_const_ins(chunk, value, line) ==
    write_ins(add_const_pool(chunk, value), Op("Constant", add_const_id(chunk)), line)

MAIN_FUNC_NAME == "<Main>"

FunctionObj(name, arity, chunk) == [name |-> name, arity |-> arity, chunk |-> chunk]
FunctionObjNew(name, arity) == FunctionObj(name, arity, ChunkNew)
new_main == FunctionObj(MAIN_FUNC_NAME, 0, ChunkNew)
is_main(fun) == fun.name = MAIN_FUNC_NAME


(***************************************************************************)
(* compiler.rs: Local, Parser, Compiler                                    *)
(***************************************************************************)
\* struct Local; depth = NoneVal is Option::None (declared, not yet defined)
Local(name, depth) == [name |-> name, depth |-> depth]

\* Compiler::new over the shared Parser (toks, current, previous) and the
\* process's stderr.  `functions_some` is the tag of Option<Vec<FunctionObj>>.
\* The fields res, err, flag, tok, id, name, slot carry a method's return
\* value to its caller.  overflow_checks is the build profile (debug builds
\* panic on integer overflow, release builds wrap).  marks is a history
\* field that no method reads: the statement boundaries of this compiler's
\* chunk, each with the number of locals in scope there.
CompilerNew(toks, current, previous, stderr, fun, functions_some, overflow_checks) ==
    [toks |-> toks, current |-> current, previous |-> previous, stderr |-> stderr,
     error_count |-> 0,
     fun |-> fun,
     functions |-> <<>>, functions_some |-> functions_some,
     locals |-> <<Local("", 0)>>,
     scope_depth |-> 0,
     overflow_checks |-> overflow_checks,
     res |-> "Ok", err |-> "", flag |-> FALSE, tok |-> TokenNone,
     id |-> 0, name |-> "", slot |-> NoneVal,
     marks |-> {}]

with_fun(c, fun) ==
    CompilerNew(c.toks, c.current, c.previous, c.stderr, fun, FALSE, c.overflow_checks)

main_compiler(source, overflow_checks) ==
    CompilerNew(source, TokenNone, TokenNone, <<>>, new_main, TRUE, overflow_checks)

Ok(c) == [c EXCEPT !.res = "Ok"]
Err(c, msg) == [c EXCEPT !.res = "Err", !.err = msg]
Panic(c, msg) == [c EXCEPT !.res = "Panic", !.err = msg]

\* The `?` operator: go on with F only if the step before returned Ok;
\* an Err (or a panic) is what the enclosing method returns
Then(c, F(_)) == IF c.res # "Ok" THEN c ELSE F(c)

\* `let x = ...;` for a step that cannot fail
Let(c, F(_)) == F(c)

\* Scanner::scan_token as the compiler sees it: the next token of the source,
\* Eof for ever once the source is exhausted, Err where the scanner rejects a
\* character (the scanner has then moved past it).
scan_token(c) ==
    IF c.toks = <<>> THEN [c EXCEPT !.res = "Ok", !.tok = T("Eof")]
    ELSE IF Head(c.toks).kind = "ScanError"
         THEN [c EXCEPT !.toks = Tail(@), !.res = "Err", !.err = Head(c.toks).lex]
         ELSE [c EXCEPT !.toks = Tail(@), !.res = "Ok", !.tok = Head(c.toks)]

update_tokens(c, new) == [c EXCEPT !.previous = c.current, !.current = new]

current_kind(c) == c.current.kind
previous_kind(c) == c.previous.kind

advance(c) == Then(scan_token(c), LAMBDA s : update_tokens(s, s.tok))

check_curr(c, kind) == current_kind(c) = kind

is_at_end(c) == check_curr(c, "Eof")

match_curr(c, kind) ==
    IF check_curr(c, kind)
    THEN Then(advance(c), LAMBDA a : [a EXCEPT !.flag = TRUE])
    ELSE [c EXCEPT !.res = "Ok", !.flag = FALSE]

consume(c, expected, msg) ==
    IF check_curr(c, expected) THEN advance(c) ELSE Err(c, msg)

consume_ident(c, msg) ==
    IF current_kind(c) = "Identifier"
    THEN Then(advance(c), LAMBDA a : [a EXCEPT !.name = c.current.lex])
    ELSE Err(c, msg)

report_error(c, error) ==
    [c EXCEPT !.error_count = @ + 1, !.stderr = Append(@, error)]

emit_ins(c, ins) == [c EXCEPT !.fun.chunk = write_ins(@, ins, c.previous.line)]

add_const(c, val) ==
    [c EXCEPT !.fun.chunk = add_const_pool(@, val), !.id = add_const_id(c.fun.chunk)]

emit_const_ins(c, value) ==
    [c EXCEPT !.fun.chunk = add_const_ins(@, value, c.previous.line)]

write_ident_constant(c, ident) == add_const(c, String(ident))

chunk_len(c) == Len(c.fun.chunk.code)

SyncKinds == {"Eof", "Class", "Fun", "Var", "For", "If", "While", "Print", "Return"}

RECURSIVE synchronize(_)

\* synchronize, after a `;` was scanned: `token` is the `;`, s the scanner
\* after the token that follows it
synchronize_semicolon(s, token) ==
    IF s.res = "Ok"
    THEN update_tokens([s EXCEPT !.previous = token], s.tok)
    ELSE synchronize(Ok(report_error(s, s.err)))

\* synchronize, with the scanner s after one more token
synchronize_token(s) ==
    IF s.res = "Ok"
    THEN CASE s.tok.kind = "Semicolon" -> synchronize_semicolon(scan_token(s), s.tok)
           [] s.tok.kind \in SyncKinds -> update_tokens(s, s.tok)
           [] OTHER -> synchronize(s)
    ELSE synchronize(Ok(s))

synchronize(c) == synchronize_token(scan_token(c))

\* emit_loop without the `+ 1` for the Loop instruction itself
emit_loop_short(c, loop_start) ==
    IF chunk_len(c) - loop_start > U16 - 1
    THEN Err(c, "Loop body too large.")
    ELSE emit_ins(c, Op("Loop", (chunk_len(c) - loop_start) % U16))

\* emit_loop whose offset reaches two instructions before the chunk's start
emit_loop_too_far(c, loop_start) ==
    IF chunk_len(c) - loop_start + 1 > U16 - 1
    THEN Err(c, "Loop body too large.")
    ELSE emit_ins(c, Op("Loop", (chunk_len(c) + 3) % U16))

emit_loop(c, loop_start) ==
    IF chunk_len(c) - loop_start + 1 > U16 - 1
    THEN Err(c, "Loop body too large.")
    ELSE emit_ins(c, Op("Loop", (chunk_len(c) - loop_start + 1) % U16))

\* emit_jump returns the index of the jump (0-based, as in the source) in c.id
emit_jump(c, ins) == [emit_ins(c, ins) EXCEPT !.id = chunk_len(c)]

patch_jump(c, index) ==
    LET jump_offset == (chunk_len(c) - index - 1) % U16
        ins == c.fun.chunk.code[index + 1]
    IN  IF ins.op \in {"JumpIfFalse", "Jump"} /\ ins.arg = NoneVal
        THEN [c EXCEPT !.fun.chunk.code[index + 1] = Op(ins.op, jump_offset)]
        ELSE Panic(c, "Internal error: Tried to patch non jump insruction")

RECURSIVE end_scope_loop(_)
end_scope_loop(c) ==
    IF c.locals = <<>> THEN c
    ELSE IF c.locals[Len(c.locals)].depth = NoneVal
         THEN Panic(c, "called Option::unwrap on a None value")
         ELSE IF c.locals[Len(c.locals)].depth > c.scope_depth
              THEN end_scope_loop([emit_ins(c, Op0("Pop")) EXCEPT
                                      !.locals = SubSeq(@, 1, Len(@) - 1)])
              ELSE c

end_scope(c) == end_scope_loop([c EXCEPT !.scope_depth = @ - 1])

\* declare_local that looks for the name in every scope, not only the current one
declare_local_any_scope(c, name) ==
    IF \E i \in 1..Len(c.locals) : c.locals[i].name = name
    THEN Err(c, "Variable with this name already declared in this scope.")
    ELSE [c EXCEPT !.locals = Append(@, Local(name, NoneVal))]

declare_local(c, name) ==
    IF \E i \in 1..Len(c.locals) :
          /\ c.locals[i].name = name
          /\ \A j \in i..Len(c.locals) :
                ~(c.locals[j].depth # NoneVal /\ c.locals[j].depth < c.scope_depth)
    THEN Err(c, "Variable with this name already declared in this scope.")
    ELSE [c EXCEPT !.locals = Append(@, Local(name, NoneVal))]

\* declare_variable returns (id, name) in c.id and c.name
declare_variable(c) ==
    Then(consume_ident(c, IF previous_kind(c) = "Fun" THEN "Expect function name."
                          ELSE "Expect variable name."),
         LAMBDA n :
            IF n.scope_depth = 0
            THEN write_ident_constant(n, n.name)
            ELSE Then(declare_local(n, n.name), LAMBDA d : [d EXCEPT !.id = 0]))

mark_initialized(c) ==
    IF c.scope_depth = 0 THEN c
    ELSE [c EXCEPT !.locals[Len(c.locals)].depth = c.scope_depth]

define_variable(c, id) ==
    IF c.scope_depth = 0 THEN emit_ins(c, Op("DefineGlobal", id))
    ELSE mark_initialized(c)

\* resolve_local: the slot in c.slot (NoneVal for None).  The error built for
\* a local whose depth is None is dropped by the source: it is neither
\* returned nor reported.
resolve_local(c, name) ==
    LET hits == {i \in 1..Len(c.locals) : c.locals[i].name = name} IN
    IF hits = {} THEN [c EXCEPT !.slot = NoneVal]
    ELSE [c EXCEPT !.slot = ((CHOOSE k \in hits : \A m \in hits : m <= k) - 1) % U16]

(***************************************************************************)
(* compiler.rs: expressions (Pratt parser)                                 *)
(***************************************************************************)
RECURSIVE parse_precedence(_, _), infix_loop(_, _), prefix(_, _, _), infix(_, _),
          variable(_, _, _), binary(_), or(_), and(_), call(_),
          argument_list_loop(_, _), grouping(_), unary(_)

expression(c) == parse_precedence(c, PrecAssignment)

literal(c) ==
    CASE previous_kind(c) = "True" -> emit_ins(c, Op0("True"))
      [] previous_kind(c) = "False" -> emit_ins(c, Op0("False"))
      [] previous_kind(c) = "Nil" -> emit_ins(c, Op0("Nil"))
      [] OTHER -> Panic(c, "unreachable")

grouping(c) ==
    Then(expression(c), LAMBDA e :
         consume(e, "RightParen", "Expect ')' after expression"))

unary(c) ==
    Then(parse_precedence(c, PrecUnary), LAMBDA e :
         CASE previous_kind(c) = "Bang" -> emit_ins(e, Op0("Not"))
           [] previous_kind(c) = "Minus" -> emit_ins(e, Op0("Negate"))
           [] OTHER -> Panic(e, "unreachable"))

\* variable, once the name is resolved: arg is the slot or the constant id
variable_emit(w, is_local, arg, can_assign) ==
    Then(IF can_assign THEN match_curr(w, "Equal") ELSE [w EXCEPT !.flag = FALSE],
         LAMBDA m :
            IF m.flag
            THEN Then(expression(m), LAMBDA e :
                      IF is_local THEN emit_ins(e, Op("SetLocal", arg))
                      ELSE emit_ins(e, Op("SetGlobal", arg)))
            ELSE IF is_local THEN emit_ins(m, Op("GetLocal", arg))
                 ELSE emit_ins(m, Op("GetGlobal", arg)))

variable(c, ident, can_assign) ==
    Let(resolve_local(c, ident), LAMBDA r :
        IF r.slot # NoneVal
        THEN variable_emit(r, TRUE, r.slot, can_assign)
        ELSE Let(write_ident_constant(r, ident), LAMBDA w :
                 variable_emit(w, FALSE, w.id, can_assign)))

prefix(c, tok, can_assign) ==
    CASE tok.kind = "LeftParen" -> grouping(c)
      [] tok.kind = "Number" -> emit_const_ins(c, Number(tok.num))
      [] tok.kind \in {"Minus", "Bang"} -> unary(c)
      [] tok.kind \in {"True", "False", "Nil"} -> literal(c)
      [] tok.kind = "String" -> emit_const_ins(c, String(tok.lex))
      [] tok.kind = "Identifier" -> variable(c, tok.lex, can_assign)
      [] OTHER -> Err(c, "Unexpected token")

infix(c, kind) ==
    CASE kind \in {"Minus", "Plus", "Slash", "Star", "EqualEqual", "Bang",
                   "Greater", "GreaterEqual", "Less", "LessEqual"} -> binary(c)
      [] kind = "Or" -> or(c)
      [] kind = "And" -> and(c)
      [] kind = "LeftParen" -> call(c)
      [] OTHER -> Ok(c)

\* the `while precedence <= self.current_kind().precedence()` loop
infix_loop(c, prec) ==
    IF prec <= precedence(current_kind(c))
    THEN Then(advance(c), LAMBDA a :
         Then(infix(a, previous_kind(a)), LAMBDA i : infix_loop(i, prec)))
    ELSE c

\* parse any expression at given precendece level or higher
parse_precedence(c, prec) ==
    Then(advance(c), LAMBDA a :
    Then(prefix(a, a.previous, prec <= PrecAssignment), LAMBDA p :
    Then(infix_loop(p, prec), LAMBDA l :
         IF prec <= PrecAssignment
         THEN Then(match_curr(l, "Equal"), LAMBDA m :
                   IF m.flag THEN Err(m, "Invalid assignment target.") ELSE m)
         ELSE l)))

binary_emit(e, operator) ==
    CASE operator = "Plus" -> emit_ins(e, Op0("Add"))
      [] operator = "Minus" -> emit_ins(e, Op0("Subtract"))
      [] operator = "Star" -> emit_ins(e, Op0("Multiply"))
      [] operator = "Slash" -> emit_ins(e, Op0("Divide"))
      [] operator = "BangEqual" -> emit_ins(emit_ins(e, Op0("Equal")), Op0("Not"))
      [] operator = "EqualEqual" -> emit_ins(e, Op0("Equal"))
      [] operator = "Less" -> emit_ins(e, Op0("Less"))
      [] operator = "LessEqual" -> emit_ins(emit_ins(e, Op0("Greater")), Op0("Not"))
      [] operator = "Greater" -> emit_ins(e, Op0("Greater"))
      [] operator = "GreaterEqual" -> emit_ins(emit_ins(e, Op0("Less")), Op0("Not"))
      [] OTHER -> Panic(e, "unreachable")

binary(c) ==
    Then(parse_precedence(c, higher(precedence(previous_kind(c)))), LAMBDA e :
         binary_emit(e, previous_kind(c)))

\* an `or` compiled with the jump chain of `and`
or_jumps_like_and(c) ==
    Let(emit_jump(c, Op("JumpIfFalse", NoneVal)), LAMBDA end_jump :
    Then(parse_precedence(emit_ins(end_jump, Op0("Pop")), PrecOr), LAMBDA e :
         patch_jump(e, end_jump.id)))

or(c) ==
    Let(emit_jump(c, Op("JumpIfFalse", NoneVal)), LAMBDA else_jump :
    Let(emit_jump(else_jump, Op("Jump", NoneVal)), LAMBDA end_jump :
    Then(patch_jump(end_jump, else_jump.id), LAMBDA p :
    Then(parse_precedence(emit_ins(p, Op0("Pop")), PrecOr), LAMBDA e :
         patch_jump(e, end_jump.id)))))

and(c) ==
    Let(emit_jump(c, Op("JumpIfFalse", NoneVal)), LAMBDA end_jump :
    Then(parse_precedence(emit_ins(end_jump, Op0("Pop")), PrecAnd), LAMBDA e :
         patch_jump(e, end_jump.id)))

\* the loop of argument_list; arg_count is the count so far
argument_list_loop(c, arg_count) ==
    Then(expression(c), LAMBDA e :
         IF arg_count = U8 - 1
         THEN Err(e, "Cannot have more than 255 arguments.")
         ELSE Then(match_curr(e, "Comma"), LAMBDA m :
                   IF m.flag THEN argument_list_loop(m, arg_count + 1)
                   ELSE [m EXCEPT !.id = arg_count + 1]))

\* argument_list returns arg_count in c.id
argument_list(c) ==
    Then(IF ~check_curr(c, "RightParen") THEN argument_list_loop(c, 0)
         ELSE [c EXCEPT !.id = 0],
         LAMBDA l :
            Then(consume(l, "RightParen", "Expect ')' after arguments."),
                 LAMBDA r : [r EXCEPT !.id = l.id]))

call(c) == Then(argument_list(c), LAMBDA a : emit_ins(a, Op("Call", a.id)))

(***************************************************************************)
(* compiler.rs: statements and declarations                                *)
(***************************************************************************)
RECURSIVE declaration(_), statement(_), block(_), block_loop(_), if_stmt(_),
          while_stmt(_), for_stmt(_), parse_for(_), fun_decl(_), parse_fun(_),
          compile_fun(_)

print_stmt(c) ==
    Then(advance(c), LAMBDA a :
    Then(expression(a), LAMBDA e :
    Then(consume(e, "Semicolon", "Expect ';' after value."), LAMBDA s :
         emit_ins(s, Op0("Print")))))

\* an expression statement that leaves its value on the stack
expression_stmt_keeps_value(c) ==
    Then(expression(c), LAMBDA e :
         consume(e, "Semicolon", "Expect ';' after expression."))

expression_stmt(c) ==
    Then(expression(c), LAMBDA e :
    Then(consume(e, "Semicolon", "Expect ';' after expression."), LAMBDA s :
         emit_ins(s, Op0("Pop"))))

\* return_stmt without the check for top-level code
return_stmt_anywhere(c) ==
    Then(advance(c), LAMBDA a :
         IF check_curr(a, "Semicolon")
         THEN Then(consume(emit_ins(a, Op0("Nil")), "Semicolon",
                           "Expect ';' after return."),
                   LAMBDA s : emit_ins(s, Op0("Return")))
         ELSE Then(expression(a), LAMBDA e :
              Then(consume(e, "Semicolon", "Expect ';' after return value."),
                   LAMBDA s : emit_ins(s, Op0("Return")))))

return_stmt(c) ==
    Then(advance(c), LAMBDA a :
         IF check_curr(a, "Semicolon")
         THEN Then(consume(emit_ins(a, Op0("Nil")), "Semicolon",
                           "Expect ';' after return."),
                   LAMBDA s : emit_ins(s, Op0("Return")))
         ELSE IF is_main(a.fun)
              THEN Err(a, "Cannot return value from top-level code.")
              ELSE Then(expression(a), LAMBDA e :
                   Then(consume(e, "Semicolon", "Expect ';' after return value."),
                        LAMBDA s : emit_ins(s, Op0("Return")))))

var_decl(c) ==
    Then(advance(c), LAMBDA a :
    Then(declare_variable(a), LAMBDA d :
    Then(match_curr(d, "Equal"), LAMBDA m :
    Then(IF m.flag THEN expression(m) ELSE emit_ins(m, Op0("Nil")), LAMBDA i :
    Then(consume(i, "Semicolon", "Expect ';' after variable declaration."),
         LAMBDA s : define_variable(s, d.id))))))

\* history only: a statement begins or has ended at the current end of the chunk
mark(c) == [c EXCEPT !.marks = @ \cup {<<chunk_len(c), Len(c.locals)>>}]

statement(c) ==
    Then(CASE current_kind(c) = "Print" -> print_stmt(mark(c))
           [] current_kind(c) = "LeftBrace" -> block(mark(c))
           [] current_kind(c) = "If" -> if_stmt(mark(c))
           [] current_kind(c) = "While" -> while_stmt(mark(c))
           [] current_kind(c) = "For" -> for_stmt(mark(c))
           [] current_kind(c) = "Return" -> return_stmt(mark(c))
           [] OTHER -> expression_stmt(mark(c)),
         LAMBDA s : mark(s))

\* declaration, after the match: on Err synchronize and report.  The bool it
\* returns is c.flag (TRUE: successful); a panic unwinds through it.
declaration_result(result) ==
    CASE result.res = "Panic" -> result
      [] result.res = "Err" ->
            [report_error(synchronize(Ok(result)), result.err) EXCEPT !.flag = FALSE]
      [] OTHER -> [mark(result) EXCEPT !.flag = TRUE]

declaration(c) ==
    declaration_result(CASE current_kind(c) = "Var" -> var_decl(mark(c))
                         [] current_kind(c) = "Fun" -> fun_decl(mark(c))
                         [] OTHER -> statement(c))

\* the loop of block; c.flag = FALSE: a declaration failed and block has
\* closed the scope and returns Ok(()) without consuming the `}`
block_loop(c) ==
    IF ~check_curr(c, "RightBrace") /\ ~is_at_end(c)
    THEN Then(declaration(c), LAMBDA d :
              IF ~d.flag THEN Then(end_scope(d), LAMBDA e : [e EXCEPT !.flag = FALSE])
              ELSE block_loop(d))
    ELSE [c EXCEPT !.flag = TRUE]

block(c) ==
    Then(advance(c), LAMBDA a :
    Then(block_loop([a EXCEPT !.scope_depth = @ + 1]), LAMBDA l :
         IF ~l.flag THEN l
         ELSE Then(end_scope(l), LAMBDA e :
                   consume(e, "RightBrace", "Expect '}' after block."))))

if_stmt(c) ==
    Then(advance(c), LAMBDA a :
    Then(consume(a, "LeftParen", "Expect '(' after 'if'."), LAMBDA lp :
    Then(expression(lp), LAMBDA e :
    Then(consume(e, "RightParen", "Expect ')' after condition."), LAMBDA rp :
    Let(emit_jump(rp, Op("JumpIfFalse", NoneVal)), LAMBDA then_jump :
    Then(statement(emit_ins(then_jump, Op0("Pop"))), LAMBDA s :
    Let(emit_jump(s, Op("Jump", NoneVal)), LAMBDA else_jump :
    Then(patch_jump(else_jump, then_jump.id), LAMBDA p :
    Then(match_curr(emit_ins(p, Op0("Pop")), "Else"), LAMBDA m :
    Then(IF m.flag THEN statement(m) ELSE m, LAMBDA t :
         patch_jump(t, else_jump.id)))))))))))

while_stmt(c) ==
    Then(advance(c), LAMBDA a :
    Then(consume(a, "LeftParen", "Expect '(' after 'while'."), LAMBDA lp :
    Then(expression(lp), LAMBDA e :
    Then(consume(e, "RightParen", "Expect ')' after condition."), LAMBDA rp :
    Let(emit_jump(rp, Op("JumpIfFalse", NoneVal)), LAMBDA exit_jump :
    Then(statement(emit_ins(exit_jump, Op0("Pop"))), LAMBDA s :
    Then(emit_loop(s, chunk_len(a)), LAMBDA l :
    Then(patch_jump(l, exit_jump.id), LAMBDA p :
         emit_ins(p, Op0("Pop"))))))))))

\* parse_for from `self.statement()?` on; exit_jump = NoneVal is None
parse_for_body(c, loop_start, exit_jump) ==
    Then(statement(c), LAMBDA s :
    Then(emit_loop(s, loop_start), LAMBDA l :
         IF exit_jump # NoneVal
         THEN Then(patch_jump(l, exit_jump), LAMBDA p : emit_ins(p, Op0("Pop")))
         ELSE l))

\* parse_for: the increment clause
parse_for_increment(c, loop_start, exit_jump) ==
    Then(match_curr(c, "RightParen"), LAMBDA m :
         IF m.flag THEN parse_for_body(m, loop_start, exit_jump)
         ELSE Let(emit_jump(m, Op("Jump", NoneVal)), LAMBDA body_jump :
              Then(expression(body_jump), LAMBDA e :
              Then(consume(emit_ins(e, Op0("Pop")), "RightParen",
                           "Expect ')' after for clauses."), LAMBDA rp :
              Then(emit_loop(rp, loop_start), LAMBDA l :
              Then(patch_jump(l, body_jump.id), LAMBDA p :
                   parse_for_body(p, chunk_len(body_jump), exit_jump)))))))

\* parse_for: the condition clause; loop_start is the chunk length here
parse_for_cond(c) ==
    Then(match_curr(c, "Semicolon"), LAMBDA m :
         IF m.flag THEN parse_for_increment(m, chunk_len(c), NoneVal)
         ELSE Then(expression(m), LAMBDA e :
              Then(consume(e, "Semicolon", "Expect ';' after loop condition."),
                   LAMBDA s :
              Let(emit_jump(s, Op("JumpIfFalse", NoneVal)), LAMBDA exit_jump :
                  parse_for_increment(emit_ins(exit_jump, Op0("Pop")),
                                      chunk_len(c), exit_jump.id)))))

parse_for(c) ==
    Then(consume(c, "LeftParen", "Expect '(' after 'for'."), LAMBDA lp :
    Then(CASE current_kind(lp) = "Semicolon" -> lp
           [] current_kind(lp) = "Var" -> var_decl(lp)
           [] OTHER -> expression_stmt(lp),
         LAMBDA i : parse_for_cond(i)))

\* for_stmt: `self.end_scope(); result` runs whether parse_for failed or not
for_stmt_end(result) ==
    IF result.res = "Panic" THEN result
    ELSE Then(end_scope(Ok(result)), LAMBDA e :
              [e EXCEPT !.res = result.res, !.err = result.err])

for_stmt(c) ==
    Then(advance(c), LAMBDA a :
         for_stmt_end(parse_for([a EXCEPT !.scope_depth = @ + 1])))

\* `*self.fun.arity_mut() += 1` on a u8.  At arity 255 the source builds the
\* "Cannot have more than 255 parameters." error and drops it; the increment
\* then overflows: a panic with overflow checks, a wrap to 0 without
arity_increment(c) ==
    IF c.fun.arity = U8 - 1
    THEN IF c.overflow_checks THEN Panic(c, "attempt to add with overflow")
         ELSE [c EXCEPT !.fun.arity = 0]
    ELSE [c EXCEPT !.fun.arity = @ + 1]

\* the parameter loop of parse_fun
RECURSIVE parse_params(_)
parse_params(c) ==
    Then(arity_increment(c), LAMBDA inc :
    Then(declare_variable(inc), LAMBDA d :
    Then(match_curr(define_variable(d, d.id), "Comma"), LAMBDA m :
         IF m.flag THEN parse_params(m) ELSE m)))

parse_fun(c) ==
    Then(consume([c EXCEPT !.scope_depth = @ + 1], "LeftParen",
                 "Expect '(' after function name."), LAMBDA lp :
    Then(IF ~check_curr(lp, "RightParen") THEN parse_params(lp) ELSE lp, LAMBDA ps :
    Then(consume(ps, "RightParen", "Expect ')' after parameters"), LAMBDA rp :
         IF ~check_curr(rp, "LeftBrace")
         THEN Err(rp, "Expect '{' before function body.")
         ELSE block(rp))))

\* compile_fun consumes the nested compiler: its result is the function
\* (c.fun) or the error; the nested compiler's error_count is dropped with it
compile_fun(c) == parse_fun(c)

\* fun_decl that takes the function's id after it has pushed the function
fun_decl_end_id_after_push(self, f, id) ==
    Let([self EXCEPT !.toks = f.toks, !.current = f.current,
                     !.previous = f.previous, !.stderr = f.stderr,
                     !.res = f.res, !.err = f.err],
        LAMBDA back :
           IF back.res # "Ok" THEN back
           ELSE IF ~back.functions_some
                THEN Panic(back, "called Option::unwrap on a None value")
                ELSE define_variable(
                        [emit_const_ins(back, Function(Len(back.functions) + 1))
                            EXCEPT !.functions = Append(@, f.fun)],
                        id))

\* fun_decl after `fun_compiler.compile_fun()`: self is the declaring
\* compiler, f the nested compiler when compile_fun returned, id the id
\* declare_variable gave.  The parser and stderr are shared with the nested
\* compiler.
fun_decl_end(self, f, id) ==
    Let([self EXCEPT !.toks = f.toks, !.current = f.current,
                     !.previous = f.previous, !.stderr = f.stderr,
                     !.res = f.res, !.err = f.err],
        LAMBDA back :
           IF back.res # "Ok" THEN back
           ELSE IF ~back.functions_some
                THEN Panic(back, "called Option::unwrap on a None value")
                ELSE define_variable(
                        [emit_const_ins(back, Function(Len(back.functions)))
                            EXCEPT !.functions = Append(@, f.fun)],
                        id))

fun_decl(c) ==
    Then(advance(c), LAMBDA a :
    Then(declare_variable(a), LAMBDA d :
         fun_decl_end(mark_initialized(d),
                      compile_fun(with_fun(mark_initialized(d),
                                           FunctionObjNew(d.name, 0))),
                      d.id)))

(***************************************************************************)
(* vm.rs: CallFrame, VM                                                    *)
(***************************************************************************)
FRAME_MAX == 256
STACK_MAX == 256

\* a frame whose base is the bottom of the stack wherever the callee is
CallFrame_at_bottom(stack_start, fun_id) == [ip |-> 0, stack_start |-> 0, fun_id |-> fun_id]

CallFrame(stack_start, fun_id) == [ip |-> 0, stack_start |-> stack_start, fun_id |-> fun_id]

NoGlobals == [k \in {} |-> Nil]

\* The VM record; res is the Result of the method last called ("Panic" for a
\* Rust panic), ret the bool that execute_ins returns, stdout the lines written
VMNone == [frames |-> <<>>, stack |-> <<>>, functions |-> <<>>,
           globals |-> NoGlobals, stdout |-> <<>>, overflow_checks |-> FALSE,
           res |-> "None", err |-> "", ret |-> FALSE]

\* VM::new: the entry function is the last one of the table
VMNew(functions, overflow_checks) ==
    IF functions = <<>>
    THEN [VMNone EXCEPT !.res = "Panic", !.err = "attempt to subtract with overflow"]
    ELSE LET code_id == Len(functions) - 1 IN
         [VMNone EXCEPT !.frames = <<CallFrame(0, code_id)>>,
                        !.stack = <<Function(code_id)>>,
                        !.functions = functions,
                        !.overflow_checks = overflow_checks,
                        !.res = "Ok"]

\* VM::with_code((main, functions)), called by lib.rs::interpret
with_code(main, functions, overflow_checks) ==
    VMNew(Append(functions, main), overflow_checks)

runtime_error(v, msg) == [v EXCEPT !.res = "Err", !.err = msg]
internal_error(v, msg) == [v EXCEPT !.res = "Panic", !.err = msg]

curr_frame(v) == v.frames[Len(v.frames)]
get_fun_ok(v, id) == id + 1 \in 1..Len(v.functions)
get_fun(v, id) == v.functions[id + 1]
vm_chunk(v) == get_fun(v, curr_frame(v).fun_id).chunk
vm_ip(v) == curr_frame(v).ip

vm_is_at_end(v) == vm_ip(v) < 0 \/ vm_ip(v) >= Len(vm_chunk(v).code)

push_stack(v, val) == [v EXCEPT !.stack = Append(@, val)]

\* pop_stack: the popped value is Top(v) of the state before
Top(v) == v.stack[Len(v.stack)]
pop_stack(v) ==
    IF v.stack = <<>> THEN internal_error(v, "Tried to pop an empty stack")
    ELSE [v EXCEPT !.stack = SubSeq(@, 1, Len(@) - 1)]

peek_ok(v, offset) == offset < Len(v.stack)
peek_stack(v, offset) == v.stack[Len(v.stack) - offset]

\* impl Display for Value
Display(val) ==
    CASE val.t = "Number" -> ToString(val.n)
      [] val.t = "String" -> val.s
      [] val.t = "Boolean" -> IF val.n = 1 THEN "true" ELSE "false"
      [] val.t = "Nil" -> "<Nil>"
      [] OTHER -> "#" \o ToString(val.n)

vm_print(v) ==
    LET p == pop_stack(v) IN
    IF p.res # "Ok" THEN p ELSE [p EXCEPT !.stdout = Append(@, Display(Top(v)))]

const_ok(v, index) == index + 1 \in 1..Len(vm_chunk(v).constants)
get_const(v, index) == vm_chunk(v).constants[index + 1]

vm_add_const(v, id) ==
    IF ~const_ok(v, id) THEN internal_error(v, "index out of bounds")
    ELSE push_stack(v, get_const(v, id))

GlobalsInsert(g, k, val) ==
    [x \in DOMAIN g \cup {k} |-> IF x = k THEN val ELSE g[x]]

define_global(v, index) ==
    IF ~const_ok(v, index) THEN internal_error(v, "index out of bounds")
    ELSE IF get_const(v, index).t # "String"
         THEN internal_error(v, "define global: expected string")
         ELSE LET p == pop_stack(v) IN
              IF p.res # "Ok" THEN p
              ELSE [p EXCEPT !.globals = GlobalsInsert(@, get_const(v, index).s, Top(v))]

get_global(v, index) ==
    IF ~const_ok(v, index) THEN internal_error(v, "index out of bounds")
    ELSE IF get_const(v, index).t # "String"
         THEN internal_error(v, "get global: expected string")
         ELSE LET ident == get_const(v, index).s IN
              IF ident \notin DOMAIN v.globals
              THEN runtime_error(v, "Undefined global variable '" \o ident \o "'")
              ELSE push_stack(v, v.globals[ident])

\* SetGlobal that stores under a name that was never defined
set_global_creates(v, index) ==
    IF ~const_ok(v, index) THEN internal_error(v, "index out of bounds")
    ELSE IF get_const(v, index).t # "String"
         THEN internal_error(v, "set global: expected string")
         ELSE IF ~peek_ok(v, 0)
              THEN internal_error(v, "Expected value at stack but found no value")
              ELSE [v EXCEPT !.globals = GlobalsInsert(@, get_const(v, index).s, peek_stack(v, 0))]

set_global(v, index) ==
    IF ~const_ok(v, index) THEN internal_error(v, "index out of bounds")
    ELSE IF get_const(v, index).t # "String"
         THEN internal_error(v, "set global: expected string")
         ELSE LET ident == get_const(v, index).s IN
              IF ~peek_ok(v, 0)
              THEN internal_error(v, "Expected value at stack but found no value")
              ELSE IF ident \in DOMAIN v.globals
                   THEN [v EXCEPT !.globals = GlobalsInsert(@, ident, peek_stack(v, 0))]
                   ELSE runtime_error(v, "Undefined global variable '" \o ident \o "'")

stack_get_ok(v, index) == curr_frame(v).stack_start + index + 1 \in 1..Len(v.stack)

get_local(v, offset) ==
    IF ~stack_get_ok(v, offset) THEN internal_error(v, "index out of bounds")
    ELSE push_stack(v, v.stack[curr_frame(v).stack_start + offset + 1])

\* SetLocal that pops the value it has stored
set_local_pops(v, offset) ==
    IF ~peek_ok(v, 0)
    THEN internal_error(v, "Expected value at stack but found no value")
    ELSE IF ~stack_get_ok(v, offset) THEN internal_error(v, "index out of bounds")
         ELSE pop_stack([v EXCEPT !.stack[curr_frame(v).stack_start + offset + 1] =
                                      peek_stack(v, 0)])

set_local(v, offset) ==
    IF ~peek_ok(v, 0)
    THEN internal_error(v, "Expected value at stack but found no value")
    ELSE IF ~stack_get_ok(v, offset) THEN internal_error(v, "index out of bounds")
         ELSE [v EXCEPT !.stack[curr_frame(v).stack_start + offset + 1] = peek_stack(v, 0)]

SetIp(v, ip) == [v EXCEPT !.frames[Len(v.frames)].ip = ip]

jump_if_false(v, offset) ==
    IF offset = NoneVal
    THEN internal_error(v, "Internal error: jump instruction has no offset")
    ELSE IF ~peek_ok(v, 0)
         THEN internal_error(v, "Expected value at stack but found no value")
         ELSE IF ~is_truthy(peek_stack(v, 0)) THEN SetIp(v, vm_ip(v) + offset) ELSE v

jump(v, offset) ==
    IF offset = NoneVal
    THEN internal_error(v, "Internal error: jump instruction has no offset")
    ELSE SetIp(v, vm_ip(v) + offset)

\* `ip -= offset` on a usize: below zero a debug build panics and a release
\* build wraps around to 2^64 + ip - offset.  The wrapped value is kept as the
\* negative number ip - offset; it is above every chunk length (see
\* vm_is_at_end).
vm_loop(v, offset) ==
    IF vm_ip(v) >= offset THEN SetIp(v, vm_ip(v) - offset)
    ELSE IF v.overflow_checks
         THEN internal_error(v, "attempt to subtract with overflow")
         ELSE SetIp(v, vm_ip(v) - offset)

\* call with the new frame's base one slot too high, at the first argument
vm_call_base_at_argument(v, arg_count) ==
    IF ~peek_ok(v, arg_count)
    THEN internal_error(v, "Expected value at stack but found no value")
    ELSE LET calee == peek_stack(v, arg_count) IN
         IF calee.t = "Function"
         THEN IF ~get_fun_ok(v, calee.n) THEN internal_error(v, "index out of bounds")
              ELSE IF arg_count # get_fun(v, calee.n).arity
                   THEN runtime_error(v, "Expected arguments but got")
                   ELSE IF Len(v.frames) = FRAME_MAX
                        THEN runtime_error(v, "Stack overflow")
                        ELSE [v EXCEPT !.frames = Append(@,
                                 CallFrame(Len(v.stack) - arg_count, calee.n))]
         ELSE runtime_error(v, "Can only call functions")

\* call whose frame limit is checked one frame too late
vm_call_limit_too_late(v, arg_count) ==
    IF ~peek_ok(v, arg_count)
    THEN internal_error(v, "Expected value at stack but found no value")
    ELSE LET calee == peek_stack(v, arg_count) IN
         IF calee.t = "Function"
         THEN IF ~get_fun_ok(v, calee.n) THEN internal_error(v, "index out of bounds")
              ELSE IF arg_count # get_fun(v, calee.n).arity
                   THEN runtime_error(v, "Expected arguments but got")
                   ELSE IF Len(v.frames) = FRAME_MAX + 1
                        THEN runtime_error(v, "Stack overflow")
                        ELSE [v EXCEPT !.frames = Append(@,
                                 CallFrame(Len(v.stack) - arg_count - 1, calee.n))]
         ELSE runtime_error(v, "Can only call functions")

vm_call(v, arg_count) ==
    IF ~peek_ok(v, arg_count)
    THEN internal_error(v, "Expected value at stack but found no value")
    ELSE LET calee == peek_stack(v, arg_count) IN
         IF calee.t = "Function"
         THEN IF ~get_fun_ok(v, calee.n) THEN internal_error(v, "index out of bounds")
              ELSE IF arg_count # get_fun(v, calee.n).arity
                   THEN runtime_error(v, "Expected arguments but got")
                   ELSE IF Len(v.frames) = FRAME_MAX
                        THEN runtime_error(v, "Stack overflow")
                        ELSE [v EXCEPT !.frames = Append(@,
                                 CallFrame(Len(v.stack) - arg_count - 1, calee.n))]
         ELSE runtime_error(v, "Can only call functions")

negate(v) ==
    LET p == pop_stack(v) IN
    IF p.res # "Ok" THEN p
    ELSE IF Top(v).t = "Number" THEN push_stack(p, Number(0 - Top(v).n))
         ELSE runtime_error(p, "Cannot negate")

not(v) ==
    LET p == pop_stack(v) IN
    IF p.res # "Ok" THEN p
    ELSE CASE Top(v).t = "Boolean" -> push_stack(p, Boolean(Top(v).n # 1))
           [] Top(v).t = "Nil" -> push_stack(p, Boolean(TRUE))
           [] OTHER -> runtime_error(p, "Cannot perform '!' operation")

vm_add(v) ==
    LET p1 == pop_stack(v) IN
    IF p1.res # "Ok" THEN p1 ELSE
    LET p2 == pop_stack(p1) IN
    IF p2.res # "Ok" THEN p2 ELSE
    LET b == Top(v)
        a == Top(p1)
    IN  CASE a.t = "Number" /\ b.t = "Number" -> push_stack(p2, Number(a.n + b.n))
          [] a.t = "String" /\ b.t = "String" -> push_stack(p2, String(a.s \o b.s))
          [] OTHER -> runtime_error(p2, "Cannot add")

\* pop_number that takes any value for a number
pop_number_unchecked(v) ==
    pop_stack(v)

\* pop_number: the number is Top(v).n of the state before
pop_number(v) ==
    LET p == pop_stack(v) IN
    IF p.res # "Ok" THEN p
    ELSE IF Top(v).t = "Number" THEN p
         ELSE runtime_error(p, "Expected a number but got")

\* f64 arithmetic on the integers the model's numbers are; a quotient that
\* is not an integer (or a division by zero) is outside the model's numbers
vm_binary(v, operator) ==
    LET p1 == pop_number(v) IN
    IF p1.res # "Ok" THEN p1 ELSE
    LET p2 == pop_number(p1) IN
    IF p2.res # "Ok" THEN p2 ELSE
    LET b == Top(v).n
        a == Top(p1).n
    IN  CASE operator = "Subtract" -> push_stack(p2, Number(a - b))
          [] operator = "Multiply" -> push_stack(p2, Number(a * b))
          [] operator = "Divide" ->
                IF b # 0 /\ a % b = 0 THEN push_stack(p2, Number(a \div b))
                ELSE [p2 EXCEPT !.res = "Unmodelled", !.err = "non-integer f64"]
          [] OTHER -> internal_error(p2, "unreachable")

comparison(v, operator) ==
    LET p1 == pop_number(v) IN
    IF p1.res # "Ok" THEN p1 ELSE
    LET p2 == pop_number(p1) IN
    IF p2.res # "Ok" THEN p2 ELSE
    LET b == Top(v).n
        a == Top(p1).n
    IN  CASE operator = "Greater" -> push_stack(p2, Boolean(a > b))
          [] operator = "Less" -> push_stack(p2, Boolean(a < b))
          [] OTHER -> internal_error(p2, "unreachable")

equality(v) ==
    LET p1 == pop_stack(v) IN
    IF p1.res # "Ok" THEN p1 ELSE
    LET p2 == pop_stack(p1) IN
    IF p2.res # "Ok" THEN p2 ELSE
    push_stack(p2, Boolean(ValueEq(Top(p1), Top(v))))

\* Return that truncates one slot too high and so keeps the callee's slot
vm_return_keeps_callee(v) ==
    LET p == pop_stack(v) IN
    IF p.res # "Ok" THEN p ELSE
    LET ret == Top(v)
        stack_start == curr_frame(v).stack_start + 1
        f == [p EXCEPT !.frames = SubSeq(@, 1, Len(@) - 1)]
    IN  IF f.frames = <<>>
        THEN LET q == pop_stack(f) IN
             IF q.res # "Ok" THEN q ELSE [q EXCEPT !.ret = TRUE]
        ELSE push_stack([f EXCEPT !.stack = SubSeq(@, 1,
                             IF stack_start < Len(@) THEN stack_start ELSE Len(@))],
                        ret)

\* OpCode::Return
vm_return(v) ==
    LET p == pop_stack(v) IN
    IF p.res # "Ok" THEN p ELSE
    LET ret == Top(v)
        stack_start == curr_frame(v).stack_start
        f == [p EXCEPT !.frames = SubSeq(@, 1, Len(@) - 1)]
    IN  IF f.frames = <<>>
        THEN LET q == pop_stack(f) IN
             IF q.res # "Ok" THEN q ELSE [q EXCEPT !.ret = TRUE]
        ELSE push_stack([f EXCEPT !.stack = SubSeq(@, 1,
                             IF stack_start < Len(@) THEN stack_start ELSE Len(@))],
                        ret)

\* VM::advance followed by the match of execute_ins
execute_ins(v) ==
    LET a == SetIp(v, vm_ip(v) + 1)
        ins == vm_chunk(v).code[vm_ip(v) + 1]
        op == ins.op
    IN  CASE op = "Constant" -> vm_add_const(a, ins.arg)
          [] op = "Print" -> vm_print(a)
          [] op = "Pop" -> pop_stack(a)
          [] op = "DefineGlobal" -> define_global(a, ins.arg)
          [] op = "GetGlobal" -> get_global(a, ins.arg)
          [] op = "SetGlobal" -> set_global(a, ins.arg)
          [] op = "GetLocal" -> get_local(a, ins.arg)
          [] op = "SetLocal" -> set_local(a, ins.arg)
          [] op = "JumpIfFalse" -> jump_if_false(a, ins.arg)
          [] op = "Jump" -> jump(a, ins.arg)
          [] op = "Loop" -> vm_loop(a, ins.arg)
          [] op = "Call" -> vm_call(a, ins.arg)
          [] op = "True" -> push_stack(a, Boolean(TRUE))
          [] op = "False" -> push_stack(a, Boolean(FALSE))
          [] op = "Nil" -> push_stack(a, Nil)
          [] op = "Negate" -> negate(a)
          [] op = "Not" -> not(a)
          [] op \in {"Greater", "Less"} -> comparison(a, op)
          [] op = "Equal" -> equality(a)
          [] op = "Add" -> vm_add(a)
          [] op \in {"Subtract", "Multiply", "Divide"} -> vm_binary(a, op)
          [] op = "Return" -> vm_return(a)

(***************************************************************************)
(* Source programs: token streams as the scanner delivers them, built from *)
(* statement fragments.                                                    *)
(***************************************************************************)
RECURSIVE Flatten(_)
Flatten(ss) == IF ss = <<>> THEN <<>> ELSE Head(ss) \o Flatten(Tail(ss))

ProgramsOf(frags, n) ==
    {Flatten(p) : p \in UNION {[1..k -> frags] : k \in 0..n}}

(***************************************************************************)
(* Compiler::compile, one action per step of its body                      *)
(***************************************************************************)
\* compile: self.advance()?
CompileAdvance ==
    /\ phase = "compile"
    /\ comp' = advance(comp)
    /\ phase' = IF comp'.res = "Ok" THEN "declarations" ELSE "compile_err"
    /\ UNCHANGED <<scanner, src, vm>>

\* compile: one pass of `while !self.is_at_end() { self.declaration(); }`
CompileDeclaration ==
    /\ phase = "declarations"
    /\ ~is_at_end(comp)
    /\ comp' = declaration(comp)
    /\ phase' = IF comp'.res = "Panic" THEN "compile_panic" ELSE "declarations"
    /\ UNCHANGED <<scanner, src, vm>>

\* compile: the loop has ended; Err if any error was counted, else
\* Ok((self.fun, self.functions.unwrap()))
CompileFinish ==
    /\ phase = "declarations"
    /\ is_at_end(comp)
    /\ IF comp.error_count # 0
       THEN /\ comp' = Err(comp, "Aborting compilation due to errors")
            /\ phase' = "compile_err"
       ELSE /\ comp' = Ok(comp)
            /\ phase' = "compile_ok"
    /\ UNCHANGED <<scanner, src, vm>>

(***************************************************************************)
(* lib.rs::interpret and VM::run, one action per step                      *)
(***************************************************************************)
\* interpret: let mut vm = vm::VM::with_code(code)
VMStart ==
    /\ phase = "compile_ok"
    /\ vm' = with_code(comp.fun, comp.functions, comp.overflow_checks)
    /\ phase' = IF vm'.res = "Ok" THEN "run" ELSE "vm_panic"
    /\ UNCHANGED <<scanner, src, comp>>

\* a run loop that drops the error of execute_ins and goes on
PhaseAfter_drops_error(v) ==
    CASE v.res = "Panic" -> "vm_panic"
      [] v.res = "Unmodelled" -> "unmodelled"
      [] v.ret -> "run_ok"
      [] OTHER -> "run"

PhaseAfter(v) ==
    CASE v.res = "Err" -> "runtime_err"
      [] v.res = "Panic" -> "vm_panic"
      [] v.res = "Unmodelled" -> "unmodelled"
      [] v.ret -> "run_ok"
      [] OTHER -> "run"

\* run: one pass of `while !self.is_at_end() { self.execute_ins()? ... }`
VMStep ==
    /\ phase = "run"
    /\ ~vm_is_at_end(vm)
    /\ vm' = execute_ins(vm)
    /\ phase' = PhaseAfter(vm')
    /\ UNCHANGED <<scanner, src, comp>>

\* run: the loop ends because the current frame's ip is at the end of its chunk
VMFinish ==
    /\ phase = "run"
    /\ vm_is_at_end(vm)
    /\ phase' = "run_ok"
    /\ UNCHANGED <<scanner, src, comp, vm>>

(***************************************************************************)
(* The interpreter on source programs: compile, then run what was compiled *)
(***************************************************************************)
\* the most fragments in one program
MaxFrags == 3

FragFun == <<T("Fun"), Ident("f"), T("LeftParen"), T("RightParen"), T("LeftBrace")>>
FragClose == <<T("RightBrace")>>
FragSelfInit == <<T("Var"), Ident("a"), T("Equal"), Ident("a"), T("Semicolon")>>
FragNum == <<Num(1)>>
FragPrint == <<T("Print"), Ident("b"), T("Semicolon")>>
FragIf == <<T("If"), T("LeftParen"), Ident("b"), T("RightParen"),
            Ident("b"), T("Equal"), T("Nil"), T("Semicolon"), T("Else")>>
FragWhile == <<T("While"), T("LeftParen"), Ident("b"), T("RightParen"),
               Ident("b"), T("Equal"), T("Nil"), T("Semicolon")>>
FragFor == <<T("For"), T("LeftParen"), T("Var"), Ident("i"), T("Equal"), Num(0),
             T("Semicolon"), Ident("i"), T("Less"), Num(1), T("Semicolon"),
             Ident("i"), T("Equal"), Ident("i"), T("Plus"), Num(1), T("RightParen")>>
FragNotEqual == <<Ident("a"), T("BangEqual"), Num(1), T("Semicolon")>>
FragCall == <<Ident("f"), T("LeftParen"), Num(1), T("RightParen"), T("Semicolon")>>
FragAssign == <<Num(1), T("Equal"), Num(2), T("Semicolon")>>
FragBang == <<Num(1), T("Bang"), Num(2), T("Semicolon")>>
FragReturn == <<T("Return"), T("Semicolon")>>

Fragments ==
    {FragFun, FragClose, FragSelfInit, FragNum, FragPrint, FragIf, FragWhile,
     FragFor, FragNotEqual, FragCall, FragAssign, FragBang, FragReturn}

BlockOpen == <<T("LeftBrace"), T("Var"), Ident("b"), T("Equal"), Num(1), T("Semicolon")>>
InBlock(p) == BlockOpen \o p \o FragClose

\* the fragments at top level, and the same inside `{ var b = 1; ... }`
Programs ==
    ProgramsOf(Fragments, MaxFrags)
        \cup {InBlock(p) : p \in ProgramsOf(Fragments, MaxFrags)}

Init ==
    /\ src \in Programs
    /\ phase = "compile"
    /\ comp = main_compiler(src, FALSE)
    /\ vm = VMNone
    /\ scanner = ScannerNone

Next ==
    \/ CompileAdvance
    \/ CompileDeclaration
    \/ CompileFinish
    \/ VMStart
    \/ VMStep
    \/ VMFinish

Spec == Init /\ [][Next]_vars

(***************************************************************************)
(* Properties of the compiler                                              *)
(***************************************************************************)
CompileDone == phase \notin {"compile", "declarations"}
CompiledOk == phase \in {"compile_ok", "run", "run_ok", "runtime_err", "vm_panic", "unmodelled"}
CompiledErr == phase = "compile_err"
Reported(msg) == \E i \in 1..Len(comp.stderr) : comp.stderr[i] = msg
MainCode == comp.fun.chunk.code

\* C1: whenever a parse error has been reported, by the top-level compiler,
\* inside a block or by the compiler of a function body, compile does not
\* return Ok.
C1_ErrorReportedMeansErr == CompiledOk => comp.stderr = <<>>

\* C2: malformed source never aborts the compiler: for every token stream
\* compile ends with Ok or with Err, never with a panic.
C2_CompilerNeverAborts == phase # "compile_panic"

\* C3: a `(` after an expression is an infix operator, so the statement
\* `f(1);` compiles, to the code of f, the code of the argument, Call(1) and
\* the statement's Pop.
C3_CallCompilesToCall ==
    (CompileDone /\ src = FragCall)
        => /\ CompiledOk
           /\ MainCode = <<Op("GetGlobal", 0), Op("Constant", 1), Op("Call", 1), Op0("Pop")>>

\* C4: the statement `a != 1;` compiles to the code of a, the code of 1,
\* Equal, Not and the statement's Pop.
C4_NotEqualCompilesToEqualNot ==
    (CompileDone /\ src = FragNotEqual)
        => /\ CompiledOk
           /\ MainCode = <<Op("GetGlobal", 0), Op("Constant", 1), Op0("Equal"), Op0("Not"), Op0("Pop")>>

\* C5: a local variable read inside its own initializer, as in
\* `{ var b = 1; var a = a; }`, is reported as "Cannot read local variable in
\* its own initializer." and compilation fails.
C5_OwnInitializerIsAnError ==
    (CompileDone /\ src = InBlock(FragSelfInit))
        => /\ CompiledErr
           /\ Reported("Cannot read local variable in its own initializer.")

\* C6: an `=` after an expression that is not an assignable variable, as in
\* `1 = 2;`, is reported as "Invalid assignment target." and compilation fails.
C6_InvalidAssignmentTarget ==
    (CompileDone /\ src = FragAssign)
        => /\ CompiledErr
           /\ Reported("Invalid assignment target.")

UnresolvedJump(ins) == ins.op \in {"Jump", "JumpIfFalse"} /\ ins.arg = NoneVal
HasUnresolvedJump(fun) ==
    \E i \in 1..Len(fun.chunk.code) : UnresolvedJump(fun.chunk.code[i])

\* C7: no chunk that compile hands over, the top-level one or a function's,
\* holds a Jump or JumpIfFalse whose operand is still unresolved.
C7_NoUnresolvedJump ==
    CompiledOk
        => /\ ~HasUnresolvedJump(comp.fun)
           /\ \A i \in 1..Len(comp.functions) : ~HasUnresolvedJump(comp.functions[i])

(***************************************************************************)
(* Properties of compiled programs when they run                           *)
(***************************************************************************)
Running == phase = "run" /\ ~vm_is_at_end(vm)
NextIns == vm_chunk(vm).code[vm_ip(vm) + 1]
Height == Len(vm.stack) - curr_frame(vm).stack_start

\* C8: when a compiled program runs, at every statement boundary of the
\* top-level chunk the height of the stack above the frame's base is the
\* number of compiler locals in scope at that boundary: a statement leaves
\* the height as it found it and a local variable declaration adds one slot.
C8_StatementsAreStackBalanced ==
    (phase = "run" /\ Len(vm.frames) = 1)
        => \A m \in comp.marks : vm_ip(vm) = m[1] => Height = m[2]

\* C8's case: a program is past its first statement, at a boundary inside a
\* block where a declared local is in scope
C8_Witness ==
    /\ phase = "run"
    /\ Len(vm.frames) = 1
    /\ vm_ip(vm) > 2
    /\ <<vm_ip(vm), 2>> \in comp.marks
    /\ Height = 2

\* C9: when GetLocal(slot) or SetLocal(slot) is about to execute,
\* stack_base + slot is an existing position of the stack.
C9_LocalSlotExists ==
    (Running /\ NextIns.op \in {"GetLocal", "SetLocal"}) => stack_get_ok(vm, NextIns.arg)

(***************************************************************************)
(* The VM on function tables that hold calls.  Compiler::compile never     *)
(* emits Call (TokenKind::precedence gives `(` Precedence::None), so Call  *)
(* is exercised on the tables VM::new accepts: two functions of arity 1,   *)
(* one of arity 0, and an entry function whose code is drawn from CallOps. *)
(***************************************************************************)
\* the most instructions in the entry function
MaxCode == 3

\* a chunk as write_ins and add_const build it: one line entry per instruction
ChunkOf(code, constants) ==
    [code |-> code, constants |-> constants, lines |-> [i \in 1..Len(code) |-> 1]]

\* fun id(x) { return x; }
FunId == FunctionObj("id", 1, ChunkOf(<<Op("GetLocal", 1), Op0("Return")>>, <<>>))
\* fun none() { return nil; }
FunNone == FunctionObj("none", 0, ChunkOf(<<Op0("Nil"), Op0("Return")>>, <<>>))
\* fun nest(x) { return id(x); }
FunNest ==
    FunctionObj("nest", 1,
        ChunkOf(<<Op("Constant", 0), Op("GetLocal", 1), Op("Call", 1), Op0("Return")>>,
                <<Function(0)>>))

CallConstants == <<Function(0), Function(1), Function(2), Number(1)>>
CallOps ==
    {Op("Constant", 0), Op("Constant", 1), Op("Constant", 2), Op("Constant", 3),
     Op("Call", 0), Op("Call", 1), Op0("Pop"), Op0("Return")}

CallMain(code) ==
    FunctionObj(MAIN_FUNC_NAME, 0, ChunkOf(code, CallConstants))

\* the entry function that Compiler::compile makes of
\* `{ var v1; var v2; ... var v256; }`: var_decl emits a Nil for each
\* local and end_scope a Pop for each
ManyLocals ==
    FunctionObj(MAIN_FUNC_NAME, 0,
        ChunkOf([i \in 1..(2 * STACK_MAX) |-> IF i <= STACK_MAX THEN Op0("Nil") ELSE Op0("Pop")],
                <<>>))

CallTables ==
    {<<FunId, FunNone, FunNest, CallMain(code)>> :
        code \in UNION {[1..k -> CallOps] : k \in 1..MaxCode}}
        \cup {<<ManyLocals>>}

InitVM ==
    /\ src = <<>>
    /\ comp = main_compiler(<<>>, FALSE)
    /\ \E table \in CallTables : vm = VMNew(table, FALSE)
    /\ phase = "run"
    /\ scanner = ScannerNone

NextVM ==
    \/ VMStep
    \/ VMFinish

SpecVM == InitVM /\ [][NextVM]_vars

Callee == peek_stack(vm, NextIns.arg)
CalleeFits == Callee.t = "Function" /\ get_fun(vm, Callee.n).arity = NextIns.arg

CallStep ==
    (Running /\ NextIns.op = "Call" /\ peek_ok(vm, NextIns.arg))
        => /\ vm'.res = "Ok"
                => /\ CalleeFits
                   /\ Len(vm'.frames) = Len(vm.frames) + 1
                   /\ curr_frame(vm').ip = 0
                   /\ curr_frame(vm').stack_start = Len(vm.stack) - NextIns.arg - 1
                   /\ vm'.stack = vm.stack
           /\ ~CalleeFits
                => /\ vm'.res = "Err"
                   /\ phase' = "runtime_err"
                   /\ vm'.frames = SetIp(vm, vm_ip(vm) + 1).frames

\* C10: a step that executes Call(n) with the value n slots below the top
\* present succeeds only if that value is a Function of arity n, and then it
\* has pushed one CallFrame with ip 0 and stack_base = stack length - n - 1
\* and left the value stack as it was; if the value is not a Function or its
\* arity is not n the step is a runtime error and pushes no frame.
C10_CallPushesFrame == [][CallStep]_vars

\* C10's case: nest(1) has called id(1): three frames, the newest at ip 0
\* with its base at the callee's slot, one below the single argument
C10_Witness ==
    /\ phase = "run"
    /\ Len(vm.frames) = 3
    /\ curr_frame(vm).ip = 0
    /\ curr_frame(vm).stack_start = Len(vm.stack) - 2
    /\ curr_frame(vm).stack_start > 0
    /\ vm.stack[curr_frame(vm).stack_start + 1] = Function(0)

ReturnStep ==
    (Running /\ NextIns.op = "Return" /\ Len(vm.frames) > 1 /\ vm.stack # <<>>)
        => /\ vm'.res = "Ok"
           /\ phase' = "run"
           /\ Len(vm'.stack) = curr_frame(vm).stack_start + 1
           /\ Top(vm') = Top(vm)
           /\ \A i \in 1..curr_frame(vm).stack_start : vm'.stack[i] = vm.stack[i]
           /\ vm'.frames = SubSeq(vm.frames, 1, Len(vm.frames) - 1)
           /\ vm_ip(vm') > 0
           /\ vm_chunk(vm').code[vm_ip(vm')].op = "Call"

\* C11: a step that executes Return in a frame other than the top-level one
\* removes that frame, leaves the stack with length stack_base + 1, the
\* returned value on top and every slot below stack_base as it was, and the
\* caller's frame is current again with its ip right behind its Call.
C11_ReturnToCaller == [][ReturnStep]_vars

\* C11's case: id(1) has returned to the entry function: its Call is behind
\* the ip, the callee's slot now holds the argument it returned
C11_Witness ==
    /\ phase = "run"
    /\ Len(vm.frames) = 1
    /\ vm_ip(vm) = 3
    /\ vm_chunk(vm).code[1] = Op("Constant", 0)
    /\ vm_chunk(vm).code[3] = Op("Call", 1)
    /\ vm.stack = <<Function(3), Number(1)>>

CallAtLimitStep ==
    (Running /\ NextIns.op = "Call" /\ peek_ok(vm, NextIns.arg) /\ CalleeFits
        /\ Len(vm.frames) = FRAME_MAX)
        => /\ vm'.res = "Err"
           /\ vm'.err = "Stack overflow"
           /\ phase' = "runtime_err"
           /\ Len(vm'.frames) = FRAME_MAX
           /\ vm'.stack = vm.stack

TopLevelReturnStep ==
    (Running /\ NextIns.op = "Return" /\ Len(vm.frames) = 1 /\ Len(vm.stack) >= 2)
        => /\ phase' = "run_ok"
           /\ vm'.frames = <<>>
           /\ vm.stack[Len(vm.stack) - 1] = Function(curr_frame(vm).fun_id)
           /\ Len(vm.stack) - 1 = 1
           /\ vm'.stack = <<>>

\* C12: a step that executes Return in the top-level frame stops the VM with
\* success: the frame stack is empty afterwards, the value discarded after
\* the return value is the entry function's sentinel of slot 0, and the
\* value stack is left empty.
C12_TopLevelReturnStops == [][TopLevelReturnStep]_vars

\* C13: the value stack never holds more than 256 values: a push beyond
\* that is a runtime error and the stack does not grow.
C13_ValueStackBounded == Len(vm.stack) <= STACK_MAX

(***************************************************************************)
(* The VM on operand tables: an entry function that pushes two values,     *)
(* executes one instruction of OpsUnderTest on them and goes on with a few *)
(* instructions of TailOps.  Divide is among them although no source       *)
(* program compiles to it (the scanner delivers no Slash token).           *)
(***************************************************************************)
\* the most instructions behind the instruction under test
MaxTail == 2

OpsConstants == <<Number(1), Number(2), String("a"), String("b"), Function(0)>>

\* the instructions that push a value: one of each variant, two Numbers and
\* two Strings
OpsPushes ==
    {Op("Constant", 0), Op("Constant", 1), Op("Constant", 2), Op("Constant", 3),
     Op("Constant", 4), Op0("True"), Op0("False"), Op0("Nil")}

\* globals are named by the String constant "a"; the local is slot 1, the
\* first value pushed
OpsUnderTest ==
    {Op0("Add"), Op0("Subtract"), Op0("Multiply"), Op0("Divide"), Op0("Greater"),
     Op0("Less"), Op0("Equal"), Op0("Negate"), Op0("Not"), Op("JumpIfFalse", 1),
     Op("DefineGlobal", 2), Op("GetGlobal", 2), Op("SetGlobal", 2),
     Op("GetLocal", 1), Op("SetLocal", 1), Op0("Print"), Op0("Pop")}

TailOps == {Op0("Print"), Op("GetGlobal", 2), Op("SetGlobal", 2)}

OpsMain(code) == FunctionObj(MAIN_FUNC_NAME, 0, ChunkOf(code, OpsConstants))

OpsTables ==
    {<<FunId, OpsMain(<<p1, p2, op>> \o tail)>> :
        p1 \in OpsPushes, p2 \in OpsPushes, op \in OpsUnderTest,
        tail \in UNION {[1..k -> TailOps] : k \in 0..MaxTail}}

InitOps ==
    /\ src = <<>>
    /\ comp = main_compiler(<<>>, FALSE)
    /\ \E table \in OpsTables : vm = VMNew(table, FALSE)
    /\ phase = "run"
    /\ scanner = ScannerNone

SpecOps == InitOps /\ [][NextVM]_vars

RuntimeErrorStep ==
    /\ vm.res # "Err"
    /\ vm'.res = "Err"
        => /\ phase' = "runtime_err"
           /\ vm'.stdout = vm.stdout
           /\ vm'.globals = vm.globals

\* C15: no step is taken by a VM that has raised a runtime error, so nothing
\* is executed, written or stored after it; and the step that raises the
\* error ends the run, writes nothing to stdout and changes no global.
C15_NothingAfterRuntimeError == [][RuntimeErrorStep]_vars

\* C15's case: after one line was printed the operand of a second Print, a
\* GetGlobal, has failed: the run has ended with that Print next in line and
\* nothing more written
C15_Witness ==
    /\ phase = "runtime_err"
    /\ vm.res = "Err"
    /\ Len(vm.stdout) = 1
    /\ vm_ip(vm) < Len(vm_chunk(vm).code)
    /\ vm_chunk(vm).code[vm_ip(vm)].op = "GetGlobal"
    /\ vm_chunk(vm).code[vm_ip(vm) + 1].op = "Print"

GlobalName == get_const(vm, NextIns.arg).s
Defined == GlobalName \in DOMAIN vm.globals
UndefinedGlobal == "Undefined global variable '" \o GlobalName \o "'"

GlobalStep ==
    Running
        => /\ (NextIns.op = "GetGlobal" /\ ~Defined)
                => vm'.res = "Err" /\ vm'.err = UndefinedGlobal /\ vm'.globals = vm.globals
           /\ (NextIns.op = "SetGlobal" /\ ~Defined /\ vm.stack # <<>>)
                => vm'.res = "Err" /\ vm'.err = UndefinedGlobal /\ vm'.globals = vm.globals
           /\ (NextIns.op = "GetGlobal" /\ Defined)
                => /\ vm'.res = "Ok"
                   /\ vm'.stack = Append(vm.stack, vm.globals[GlobalName])
                   /\ vm'.globals = vm.globals
           /\ (NextIns.op \in {"SetGlobal", "DefineGlobal"} /\ vm'.res = "Ok")
                => /\ DOMAIN vm'.globals = DOMAIN vm.globals \cup {GlobalName}
                   /\ vm'.globals[GlobalName] = Top(vm)
                   /\ \A k \in DOMAIN vm.globals \ {GlobalName} : vm'.globals[k] = vm.globals[k]
           /\ NextIns.op \notin {"SetGlobal", "DefineGlobal"}
                => vm'.globals = vm.globals

\* C16: GetGlobal and SetGlobal of a name that DefineGlobal has not defined
\* are the runtime error "Undefined global variable 'NAME'" and leave the
\* globals as they were; a GetGlobal of a defined name pushes the value held
\* under it, which only DefineGlobal and a successful SetGlobal of that name
\* store, so it is the value stored last.
C16_UndefinedGlobalIsAnError == [][GlobalStep]_vars

\* C16's case: "a" was defined as 2, then set to 1, and GetGlobal has pushed
\* the 1 stored last
C16_Witness ==
    /\ phase = "run"
    /\ vm_ip(vm) = 5
    /\ vm_chunk(vm).code[2] = Op("Constant", 1)
    /\ vm_chunk(vm).code[3].op = "DefineGlobal"
    /\ vm_chunk(vm).code[4].op = "SetGlobal"
    /\ vm_chunk(vm).code[5].op = "GetGlobal"
    /\ vm.globals["a"] = Number(1)
    /\ vm.stack = <<Function(1), Number(1), Number(1)>>

LocalSlot == curr_frame(vm).stack_start + NextIns.arg + 1

AssignStep ==
    (Running /\ vm.stack # <<>>)
        => /\ (NextIns.op = "SetGlobal" /\ Defined)
                => /\ vm'.res = "Ok"
                   /\ vm'.stack = vm.stack
                   /\ vm'.globals[GlobalName] = Top(vm)
           /\ (NextIns.op = "SetLocal" /\ LocalSlot \in 1..Len(vm.stack))
                => /\ vm'.res = "Ok"
                   /\ Len(vm'.stack) = Len(vm.stack)
                   /\ Top(vm') = Top(vm)
                   /\ vm'.stack[LocalSlot] = Top(vm)
                   /\ \A i \in 1..Len(vm.stack) :
                        i # LocalSlot => vm'.stack[i] = vm.stack[i]
                   /\ vm'.globals = vm.globals
           /\ NextIns.op = "Print"
                => /\ vm'.res = "Ok"
                   /\ vm'.stdout = Append(vm.stdout, Display(Top(vm)))

\* C17: SetGlobal and SetLocal store the top of the stack without popping
\* it: the stack keeps its height and its top, SetLocal changes the addressed
\* slot and no other, and a Print that follows the store prints the value
\* that was assigned.
C17_AssignmentKeepsValue == [][AssignStep]_vars

\* C17's case: "a" was set to 1 and the Print after the SetGlobal printed 1
C17_Witness ==
    /\ vm.res = "Ok"
    /\ Len(vm.frames) = 1
    /\ vm_ip(vm) = 5
    /\ vm_chunk(vm).code[1] = Op("Constant", 0)
    /\ vm_chunk(vm).code[3].op = "DefineGlobal"
    /\ vm_chunk(vm).code[4].op = "SetGlobal"
    /\ vm_chunk(vm).code[5].op = "Print"
    /\ vm.globals["a"] = Number(1)
    /\ vm.stdout = <<"1">>

Left == vm.stack[Len(vm.stack) - 1]
Right == Top(vm)
BothAre(t) == Left.t = t /\ Right.t = t
NumberOps == {"Subtract", "Multiply", "Divide", "Greater", "Less"}

\* the instruction replaced its n operands by val
Replaced(n, val) ==
    /\ vm'.res = "Ok"
    /\ vm'.stack = Append(SubSeq(vm.stack, 1, Len(vm.stack) - n), val)

\* the instruction raised a runtime error and pushed nothing
Rejected ==
    /\ vm'.res = "Err"
    /\ Len(vm'.stack) < Len(vm.stack)
    /\ vm'.stack = SubSeq(vm.stack, 1, Len(vm'.stack))

TypeCheckStep ==
    (Running /\ Len(vm.stack) >= 2)
        => /\ NextIns.op = "Add"
                => CASE BothAre("Number") -> Replaced(2, Number(Left.n + Right.n))
                     [] BothAre("String") -> Replaced(2, String(Left.s \o Right.s))
                     [] OTHER -> Rejected
           /\ NextIns.op \in NumberOps
                => IF BothAre("Number")
                   THEN CASE NextIns.op = "Subtract" -> Replaced(2, Number(Left.n - Right.n))
                          [] NextIns.op = "Multiply" -> Replaced(2, Number(Left.n * Right.n))
                          [] NextIns.op = "Greater" -> Replaced(2, Boolean(Left.n > Right.n))
                          [] NextIns.op = "Less" -> Replaced(2, Boolean(Left.n < Right.n))
                          [] OTHER -> vm'.res # "Err"
                   ELSE Rejected
           /\ NextIns.op = "Negate"
                => IF Right.t = "Number" THEN Replaced(1, Number(0 - Right.n))
                   ELSE Rejected
           /\ NextIns.op = "Not"
                => CASE Right.t = "Boolean" -> Replaced(1, Boolean(Right = Boolean(FALSE)))
                     [] Right.t = "Nil" -> Replaced(1, Boolean(TRUE))
                     [] OTHER -> Rejected

\* C18: Add pushes the sum of two Numbers and the concatenation, left operand
\* first, of two Strings, and is a runtime error for any other pair;
\* Subtract, Multiply, Divide, Greater and Less are a runtime error unless
\* both operands are Numbers, Negate unless its operand is a Number, Not
\* unless its operand is a Boolean or Nil; an operator that raises the error
\* pushes nothing.
C18_OperandTypesChecked == [][TypeCheckStep]_vars

\* C18's case: Subtract met a String on the right and raised the error,
\* leaving the operands below it
C18_Witness ==
    /\ phase = "runtime_err"
    /\ vm_ip(vm) = 3
    /\ vm_chunk(vm).code[1] = Op("Constant", 0)
    /\ vm_chunk(vm).code[2] = Op("Constant", 2)
    /\ vm_chunk(vm).code[3].op = "Subtract"
    /\ vm.stack = <<Function(1), Number(1)>>

SameVariantAndPayload(a, b) == a.t = b.t /\ a.n = b.n /\ a.s = b.s

EqualStep ==
    (Running /\ NextIns.op = "Equal" /\ Len(vm.stack) >= 2)
        => Replaced(2, Boolean(SameVariantAndPayload(Left, Right)))

\* C19: Equal pops two values and pushes true exactly when they are of the
\* same variant with the same payload (Strings by their content, Functions
\* by their id, Nil with Nil) and false when the variants differ, as for nil
\* and false.
C19_EqualComparesVariantAndPayload == [][EqualStep]_vars

\* C19's case: Equal has compared nil with false and pushed false
C19_Witness ==
    /\ phase = "run"
    /\ vm_ip(vm) = 3
    /\ vm_chunk(vm).code[1] = Op0("Nil")
    /\ vm_chunk(vm).code[2] = Op0("False")
    /\ vm_chunk(vm).code[3].op = "Equal"
    /\ vm.stack = <<Function(1), Boolean(FALSE)>>

Falsy(val) == val = Nil \/ val = Boolean(FALSE)

JumpIfFalseStep ==
    (Running /\ NextIns.op = "JumpIfFalse" /\ vm.stack # <<>>)
        => /\ vm'.res = "Ok"
           /\ vm'.stack = vm.stack
           /\ Len(vm'.frames) = Len(vm.frames)
           /\ vm_ip(vm') = vm_ip(vm) + 1 + (IF Falsy(Top(vm)) THEN NextIns.arg ELSE 0)

\* C20: is_truthy is false for Nil and for Boolean(false) and true for every
\* other value, and JumpIfFalse(off) adds off to the ip, which is already past
\* the instruction, exactly when the top of the stack is falsy; the value
\* stack is the same after it either way.
C20_JumpIfFalseOnFalsyTop ==
    /\ [](\A i \in 1..Len(vm.stack) : is_truthy(vm.stack[i]) <=> ~Falsy(vm.stack[i]))
    /\ [][JumpIfFalseStep]_vars

\* C20's case: JumpIfFalse found nil on top and jumped over the Print, with
\* the stack as it was
C20_Witness ==
    /\ phase = "run"
    /\ vm_ip(vm) = 4
    /\ Len(vm_chunk(vm).code) = 5
    /\ vm_chunk(vm).code[2] = Op0("Nil")
    /\ vm_chunk(vm).code[3].op = "JumpIfFalse"
    /\ vm_chunk(vm).code[4].op = "Print"
    /\ vm.stack = <<Function(1), Number(1), Nil>>
    /\ vm.stdout = <<>>

(***************************************************************************)
(* The interpreter on whole programs of the language's constructs          *)
(***************************************************************************)
\* the literal a token stands for
ValueOf(tok) ==
    CASE tok.kind = "True" -> Boolean(TRUE)
      [] tok.kind = "False" -> Boolean(FALSE)
      [] tok.kind = "Nil" -> Nil
      [] tok.kind = "String" -> String(tok.lex)
      [] OTHER -> Number(tok.num)

\* `print A and B;` and `print A or B;`.  The right operand `u` is a global
\* that is never defined: evaluating it is a runtime error
LogicLeft == {T("True"), T("False"), T("Nil"), Num(1)}
LogicRight == {T("True"), T("False"), T("Nil"), Num(2), Ident("u")}
LogicSrc(a, op, b) == <<T("Print"), a, T(op), b, T("Semicolon")>>
LogicPrograms ==
    {LogicSrc(a, op, b) : a \in LogicLeft, op \in {"And", "Or"}, b \in LogicRight}

\* the most iterations of a loop
MaxIter == 3

\* `i = i + 1`
Increment == <<Ident("i"), T("Equal"), Ident("i"), T("Plus"), Num(1)>>
\* `i < n`
Below(n) == <<Ident("i"), T("Less"), Num(n)>>
\* `print i;`
PrintI == <<T("Print"), Ident("i"), T("Semicolon")>>
\* `var i = 0;`
VarI == <<T("Var"), Ident("i"), T("Equal"), Num(0), T("Semicolon")>>

\* `var i = 0; while (i < n) { print i; i = i + 1; }`
WhileSrc(n) ==
    VarI \o <<T("While"), T("LeftParen")>> \o Below(n) \o <<T("RightParen"), T("LeftBrace")>>
         \o PrintI \o Increment \o <<T("Semicolon"), T("RightBrace")>>

\* `for (var i = 0; i < n; i = i + 1) print i;`
ForSrc(n) ==
    <<T("For"), T("LeftParen")>> \o VarI \o Below(n) \o <<T("Semicolon")>>
        \o Increment \o <<T("RightParen")>> \o PrintI

LoopPrograms == {WhileSrc(n) : n \in 0..MaxIter} \cup {ForSrc(n) : n \in 0..MaxIter}

\* `fun NAME() {`
FunOpen(name) ==
    <<T("Fun"), Ident(name), T("LeftParen"), T("RightParen"), T("LeftBrace")>>
\* `print x;`
PrintX == <<T("Print"), Ident("x"), T("Semicolon")>>
\* `var x = 1;`
VarX == <<T("Var"), Ident("x"), T("Equal"), Num(1), T("Semicolon")>>

\* `fun f() { }`
FunTop == FunOpen("f") \o FragClose
\* `fun f() { } fun g() { }`
FunTwo == FunOpen("f") \o FragClose \o FunOpen("g") \o FragClose
\* `{ fun f() { } }`
FunInBlock == <<T("LeftBrace")>> \o FunOpen("f") \o FragClose \o FragClose
\* `fun f() { fun g() { } }`
FunInFun == FunOpen("f") \o FunOpen("g") \o FragClose \o FragClose
\* `{ var x = 1; fun f() { print x; } }`
FunBesideLocal == <<T("LeftBrace")>> \o VarX \o FunOpen("f") \o PrintX \o FragClose \o FragClose

FunPrograms == {FunTop, FunTwo, FunInBlock, FunInFun, FunBesideLocal}

\* the expressions returned, each with the code it compiles to
ReturnExprs ==
    {<<<<Num(1)>>, <<Op("Constant", 0)>>>>,
     <<<<T("True")>>, <<Op0("True")>>>>,
     <<<<Num(1), T("Plus"), Num(2)>>, <<Op("Constant", 0), Op("Constant", 1), Op0("Add")>>>>}

\* `return EXPR;` and `return;`
ReturnValue(e) == <<T("Return")>> \o e \o <<T("Semicolon")>>
\* `fun f() { BODY }`
InFun(body) == FunOpen("f") \o body \o FragClose
\* `{ BODY }`
InBraces(body) == <<T("LeftBrace")>> \o body \o FragClose

ReturnPrograms ==
    {FragReturn, InFun(FragReturn)}
        \cup {ReturnValue(x[1]) : x \in ReturnExprs}
        \cup {InBraces(ReturnValue(x[1])) : x \in ReturnExprs}
        \cup {InFun(ReturnValue(x[1])) : x \in ReturnExprs}

\* the tokens of the binary operators, and `1 OP1 2 OP2 3;`
BinaryTokens ==
    {"Plus", "Minus", "Star", "Slash", "EqualEqual", "BangEqual",
     "Less", "LessEqual", "Greater", "GreaterEqual"}
BinarySrc(op1, op2) == <<Num(1), T(op1), Num(2), T(op2), Num(3), T("Semicolon")>>
BinaryPrograms == {BinarySrc(op1, op2) : op1 \in BinaryTokens, op2 \in BinaryTokens}

LangPrograms ==
    LogicPrograms \cup LoopPrograms \cup FunPrograms \cup ReturnPrograms
        \cup BinaryPrograms

InitLang ==
    /\ src \in LangPrograms
    /\ phase = "compile"
    /\ comp = main_compiler(src, FALSE)
    /\ vm = VMNone
    /\ scanner = ScannerNone

SpecLang == InitLang /\ [][Next]_vars

Failed == phase \in {"compile_err", "compile_panic", "vm_panic", "unmodelled"}

\* the right operand of the logic program is skipped
ShortCircuits ==
    \/ src[3].kind = "And" /\ Falsy(ValueOf(src[2]))
    \/ src[3].kind = "Or" /\ ~Falsy(ValueOf(src[2]))

\* C21: `a and b` evaluates b only when a is truthy and is a when a is
\* falsy, else b; `a or b` evaluates b only when a is falsy and is a when a
\* is truthy, else b: the program prints a without running b when the
\* operator short-circuits, and otherwise prints b, or stops with b's
\* runtime error; when the Print is reached the expression has left exactly
\* one value above the function's slot.
C21_ShortCircuit ==
    src \in LogicPrograms
        => /\ ~Failed
           /\ (Running /\ NextIns.op = "Print") => Len(vm.stack) = 2
           /\ IF ShortCircuits
              THEN /\ phase # "runtime_err"
                   /\ phase = "run_ok" => vm.stdout = <<Display(ValueOf(src[2]))>>
              ELSE IF src[4].kind = "Identifier"
                   THEN phase # "run_ok" /\ vm.stdout = <<>>
                   ELSE /\ phase # "runtime_err"
                        /\ phase = "run_ok" => vm.stdout = <<Display(ValueOf(src[4]))>>

\* C21's case: `print nil and u;` has printed nil and ended without the
\* runtime error of reading u
C21_Witness ==
    /\ src = LogicSrc(T("Nil"), "And", Ident("u"))
    /\ phase = "run_ok"
    /\ vm.stdout = <<"<Nil>">>
    /\ vm.stack = <<Function(0)>>

\* what a loop over i = 0 .. n - 1 prints
Counted(n) == [k \in 1..n |-> ToString(k - 1)]
IsPrefix(s, t) == Len(s) <= Len(t) /\ s = SubSeq(t, 1, Len(s))

\* C22: `while (c) S` evaluates c before every iteration and runs S as long
\* as c is truthy; `for (init; c; step) S` runs init once and then c, S,
\* step in that order, leaving the loop the first time c is falsy, and pops
\* its variable at the end: a loop that prints i and then increments it
\* while i < n prints 0 .. n - 1, no more and in that order, and ends with
\* nothing but the function's slot on the stack.
C22_LoopOrder ==
    \A n \in 0..MaxIter :
        src \in {WhileSrc(n), ForSrc(n)}
            => /\ ~Failed
               /\ phase # "runtime_err"
               /\ CompiledOk => IsPrefix(vm.stdout, Counted(n))
               /\ phase = "run_ok"
                    => vm.stdout = Counted(n) /\ vm.stack = <<Function(0)>>

\* C22's case: the for loop with i < 2 has ended after printing 0 and 1
C22_Witness ==
    /\ src = ForSrc(2)
    /\ phase = "run_ok"
    /\ vm.stdout = <<"0", "1">>
    /\ vm.stack = <<Function(0)>>

(***************************************************************************)
(* Compiler::block, one action per step of its body.  The nesting of the   *)
(* calls of block is the compiler's scope_depth: at depth 0 the loop that   *)
(* runs is compile's, at depth d > 0 that of the d-th nested block.  The    *)
(* programs have `{` at the start of a statement only.                      *)
(***************************************************************************)
\* the most statements after a program's opening
MaxItems == 4

ItemOpen == <<T("LeftBrace")>>
ItemClose == <<T("RightBrace")>>
ItemVarA == <<T("Var"), Ident("a"), T("Semicolon")>>
ItemVarB == <<T("Var"), Ident("b"), T("Semicolon")>>
ItemPrintA == <<T("Print"), Ident("a"), T("Semicolon")>>
\* `var a = ;`
ItemVarNoValue == <<T("Var"), Ident("a"), T("Equal"), T("Semicolon")>>

ScopeItems == {ItemOpen, ItemClose, ItemVarA, ItemVarB, ItemPrintA, ItemVarNoValue}

\* nothing, `var a; {` or `{ var a; {` before the statements
ScopeOpenings == {<<>>, ItemVarA \o ItemOpen, ItemOpen \o ItemVarA \o ItemOpen}

ScopePrograms == {o \o p : o \in ScopeOpenings, p \in ProgramsOf(ScopeItems, MaxItems)}

InitScope ==
    /\ src \in ScopePrograms
    /\ phase = "compile"
    /\ comp = main_compiler(src, FALSE)
    /\ vm = VMNone
    /\ scanner = ScannerNone

\* where the compiler is once a declaration of the loop has returned d
LoopAfter(d) ==
    CASE d.res = "Panic" -> "compile_panic"
      [] ~d.flag /\ d.scope_depth > 0 -> "leaving"
      [] OTHER -> "declarations"

\* declaration -> statement, once block has returned result
BlockReturned(result) == declaration_result(Then(result, LAMBDA s : mark(s)))

\* declaration -> statement -> block: self.advance()?; self.scope_depth += 1
ScopeEnter ==
    /\ phase = "declarations"
    /\ check_curr(comp, "LeftBrace")
    /\ LET a == advance(mark(comp)) IN
       IF a.res = "Ok"
       THEN comp' = [a EXCEPT !.scope_depth = @ + 1] /\ phase' = "declarations"
       ELSE comp' = BlockReturned(a) /\ phase' = LoopAfter(comp')
    /\ UNCHANGED <<scanner, src, vm>>

\* one pass of the loop of block (or, at depth 0, of compile) over a
\* declaration that is not a block
ScopeDeclaration ==
    /\ phase = "declarations"
    /\ ~check_curr(comp, "LeftBrace")
    /\ ~is_at_end(comp)
    /\ comp.scope_depth = 0 \/ ~check_curr(comp, "RightBrace")
    /\ comp' = declaration(comp)
    /\ phase' = LoopAfter(comp')
    /\ UNCHANGED <<scanner, src, vm>>

\* block after its loop: self.end_scope(), then the `}` is consumed, or, after
\* a declaration that failed, Ok(()) is returned at once
ScopeLeave ==
    /\ \/ phase = "leaving"
       \/ /\ phase = "declarations"
          /\ comp.scope_depth > 0
          /\ check_curr(comp, "RightBrace") \/ is_at_end(comp)
    /\ comp' = BlockReturned(IF phase = "leaving" THEN end_scope(comp)
                             ELSE Then(end_scope(comp), LAMBDA e :
                                       consume(e, "RightBrace", "Expect '}' after block.")))
    /\ phase' = LoopAfter(comp')
    /\ UNCHANGED <<scanner, src, vm>>

\* compile after its loop
ScopeFinish ==
    /\ comp.scope_depth = 0
    /\ CompileFinish

NextScope ==
    \/ CompileAdvance
    \/ ScopeEnter
    \/ ScopeDeclaration
    \/ ScopeLeave
    \/ ScopeFinish

SpecScope == InitScope /\ [][NextScope]_vars

\* block is about to leave its scope
Leaving ==
    \/ phase = "leaving"
    \/ /\ phase = "declarations"
       /\ comp.scope_depth > 0
       /\ check_curr(comp, "RightBrace") \/ is_at_end(comp)

\* the locals of the scopes that enclose the current one: they were defined
\* at a smaller depth
Enclosing ==
    {i \in 1..Len(comp.locals) :
        comp.locals[i].depth # NoneVal /\ comp.locals[i].depth < comp.scope_depth}

Pops(n) == [i \in 1..n |-> Op0("Pop")]

LeaveStep ==
    Leaving
        => /\ comp'.res # "Panic"
           /\ comp'.scope_depth = comp.scope_depth - 1
           /\ comp'.locals = SubSeq(comp.locals, 1, Cardinality(Enclosing))
           /\ comp'.fun.chunk.code =
                 comp.fun.chunk.code \o Pops(Len(comp.locals) - Cardinality(Enclosing))

\* C23: leaving a scope emits one Pop for every local declared in it and
\* takes exactly those locals, the last declared first, off the compiler's
\* locals stack; the locals of the enclosing scopes stay and get no Pop.
C23_ScopeLeavePopsItsLocals == [][LeaveStep]_vars

\* the loop is at `var NAME` or at `print NAME;`
AtVar == phase = "declarations" /\ check_curr(comp, "Var")
AtPrint == phase = "declarations" /\ check_curr(comp, "Print")
NameNext == comp.toks # <<>> /\ Head(comp.toks).kind = "Identifier"
NextName == Head(comp.toks).lex

\* the locals of that name, and whether one of them belongs to the current scope
LocalsNamed(name) == {i \in 1..Len(comp.locals) : comp.locals[i].name = name}
LocalInScope(name) == LocalsNamed(name) \ Enclosing # {}

\* the name was declared at depth 0: a DefineGlobal of it was emitted
GlobalDeclared(name) ==
    \E k \in 1..Len(MainCode) :
        /\ MainCode[k].op = "DefineGlobal"
        /\ comp.fun.chunk.constants[MainCode[k].arg + 1] = String(name)

AlreadyDeclared == "Variable with this name already declared in this scope."
ReportsAlreadyDeclared ==
    /\ comp'.stderr = Append(comp.stderr, AlreadyDeclared)
    /\ comp'.error_count = comp.error_count + 1
    /\ comp'.locals = comp.locals

\* a reference to a name is to the innermost local of that name, else to a global
ReferenceStep ==
    (AtPrint /\ NameNext /\ comp'.flag)
        => comp'.fun.chunk.code = comp.fun.chunk.code \o
              <<IF LocalsNamed(NextName) = {}
                THEN Op("GetGlobal", Len(comp.fun.chunk.constants))
                ELSE Op("GetLocal",
                        (CHOOSE i \in LocalsNamed(NextName) :
                            \A j \in LocalsNamed(NextName) : j <= i) - 1),
                Op0("Print")>>

RedeclareStep ==
    (AtVar /\ NameNext)
        => IF \/ comp.scope_depth > 0 /\ LocalInScope(NextName)
              \/ comp.scope_depth = 0 /\ GlobalDeclared(NextName)
           THEN ReportsAlreadyDeclared
           ELSE comp'.stderr # Append(comp.stderr, AlreadyDeclared)

\* C24: declaring a name that is already declared in the same scope is a
\* compile error, at any depth; a name that is declared in an enclosing
\* scope only is accepted, and references resolve to the innermost
\* declaration until its scope ends.
C24_RedeclarationIsAnError == [][RedeclareStep /\ ReferenceStep]_vars

LocalRedeclareStep ==
    (AtVar /\ NameNext)
        => IF comp.scope_depth > 0 /\ LocalInScope(NextName)
           THEN ReportsAlreadyDeclared
           ELSE /\ comp'.stderr # Append(comp.stderr, AlreadyDeclared)
                /\ (comp.scope_depth = 0 /\ comp'.flag)
                      => /\ comp'.locals = comp.locals
                         /\ comp'.fun.chunk.code[Len(comp'.fun.chunk.code)] =
                               Op("DefineGlobal", Len(comp.fun.chunk.constants))

\* C24 as amended: inside a block, declaring a name that is already declared
\* in the same block scope is a compile error; at depth 0 a name may be
\* declared again (each var emits its DefineGlobal); a name declared in an
\* enclosing scope only is accepted, and references resolve to the innermost
\* declaration until its scope ends.
C24_LocalRedeclarationIsAnError == [][LocalRedeclareStep /\ ReferenceStep]_vars

\* C24's case: in `{ var a; { var a; print a; } print a;` the inner a was
\* accepted, the first print read the inner a (slot 2) and the second, after
\* the inner scope, the outer a (slot 1)
C24_Witness ==
    /\ phase = "declarations"
    /\ comp.scope_depth = 1
    /\ comp.stderr = <<>>
    /\ MainCode = <<Op0("Nil"), Op0("Nil"), Op("GetLocal", 2), Op0("Print"), Op0("Pop"),
                    Op("GetLocal", 1), Op0("Print")>>

\* the positions of the `fun` tokens of the program, and how many `{` are
\* open at a position
FunAt == {i \in 1..Len(src) - 1 : src[i].kind = "Fun"}
BracesOpen(i) ==
    Cardinality({j \in 1..i : src[j].kind = "LeftBrace"})
        - Cardinality({j \in 1..i : src[j].kind = "RightBrace"})

\* main pushes the function of that name and binds it with DefineGlobal
BoundGlobal(name) ==
    \E k \in 1..Len(MainCode) - 1 :
        /\ MainCode[k].op = "Constant"
        /\ comp.fun.chunk.constants[MainCode[k].arg + 1].t = "Function"
        /\ comp.functions[comp.fun.chunk.constants[MainCode[k].arg + 1].n + 1].name = name
        /\ MainCode[k + 1].op = "DefineGlobal"
        /\ comp.fun.chunk.constants[MainCode[k + 1].arg + 1] = String(name)

\* main pushes the function of that name and leaves it in its local slot
BoundLocal(name) ==
    \E k \in 1..Len(MainCode) - 1 :
        /\ MainCode[k].op = "Constant"
        /\ comp.fun.chunk.constants[MainCode[k].arg + 1].t = "Function"
        /\ comp.functions[comp.fun.chunk.constants[MainCode[k].arg + 1].n + 1].name = name
        /\ MainCode[k + 1].op # "DefineGlobal"

\* C25: a function declared at any nesting level, also inside another
\* function's body, compiles: each is appended to the one function table
\* under its name, a function declared in main is bound by DefineGlobal at
\* depth 0 and left in a local slot inside a block, and no body reads or
\* writes a local of the code around it (the bodies here declare no locals
\* of their own).
C25_FunctionsAtAnyNestingLevel ==
    src \in FunPrograms
        => /\ ~Failed
           /\ CompiledOk
                => /\ Len(comp.functions) = Cardinality(FunAt)
                   /\ {comp.functions[k].name : k \in 1..Len(comp.functions)}
                         = {src[i + 1].lex : i \in FunAt}
                   /\ \A i \in FunAt :
                        /\ BracesOpen(i) = 0 => BoundGlobal(src[i + 1].lex)
                        /\ (src[1].kind = "LeftBrace" /\ BracesOpen(i) = 1)
                              => BoundLocal(src[i + 1].lex)
                   /\ \A k \in 1..Len(comp.functions) :
                        \A n \in 1..Len(comp.functions[k].chunk.code) :
                            comp.functions[k].chunk.code[n].op \notin {"GetLocal", "SetLocal"}

ReturnFromTopLevel == "Cannot return value from top-level code."

\* C26: `return EXPR;` in top-level code, also inside a block, is the compile
\* error "Cannot return value from top-level code."; inside a function it
\* compiles to the code of EXPR followed by Return; a bare `return;` compiles
\* to Nil, Return, in a function and at top level.
C26_ReturnCompiles ==
    /\ \A x \in ReturnExprs :
        /\ src \in {ReturnValue(x[1]), InBraces(ReturnValue(x[1]))}
              => /\ ~CompiledOk /\ phase # "compile_panic"
                 /\ CompileDone => Reported(ReturnFromTopLevel)
        /\ src = InFun(ReturnValue(x[1]))
              => /\ ~Failed
                 /\ CompiledOk => comp.functions[1].chunk.code = x[2] \o <<Op0("Return")>>
    /\ src = InFun(FragReturn)
          => /\ ~Failed
             /\ CompiledOk => comp.functions[1].chunk.code = <<Op0("Nil"), Op0("Return")>>
    /\ src = FragReturn
          => /\ ~Failed
             /\ CompiledOk => MainCode = <<Op0("Nil"), Op0("Return")>>

\* C26's case: `fun f() { return 1 + 2; }` has compiled to the code of the
\* sum followed by Return
C26_Witness ==
    /\ src = InFun(ReturnValue(<<Num(1), T("Plus"), Num(2)>>))
    /\ phase = "compile_ok"
    /\ comp.stderr = <<>>
    /\ comp.functions[1].chunk.code =
          <<Op("Constant", 0), Op("Constant", 1), Op0("Add"), Op0("Return")>>

\* the level of a binary operator in the order
\* Equality < Comparison < Term < Factor, and the opcodes it stands for
LevelOf(op) ==
    CASE op \in {"EqualEqual", "BangEqual"} -> 1
      [] op \in {"Less", "LessEqual", "Greater", "GreaterEqual"} -> 2
      [] op \in {"Plus", "Minus"} -> 3
      [] OTHER -> 4
OpcodesOf(op) ==
    CASE op = "Plus" -> <<Op0("Add")>>
      [] op = "Minus" -> <<Op0("Subtract")>>
      [] op = "Star" -> <<Op0("Multiply")>>
      [] op = "Slash" -> <<Op0("Divide")>>
      [] op = "EqualEqual" -> <<Op0("Equal")>>
      [] op = "BangEqual" -> <<Op0("Equal"), Op0("Not")>>
      [] op = "Less" -> <<Op0("Less")>>
      [] op = "LessEqual" -> <<Op0("Greater"), Op0("Not")>>
      [] op = "Greater" -> <<Op0("Greater")>>
      [] OTHER -> <<Op0("Less"), Op0("Not")>>

\* the code of `1 OP1 2 OP2 3;`: OP2 takes 2 and 3 first only if it binds
\* tighter than OP1
BinaryCode(op1, op2) ==
    IF LevelOf(op2) > LevelOf(op1)
    THEN <<Op("Constant", 0), Op("Constant", 1), Op("Constant", 2)>>
            \o OpcodesOf(op2) \o OpcodesOf(op1) \o <<Op0("Pop")>>
    ELSE <<Op("Constant", 0), Op("Constant", 1)>> \o OpcodesOf(op1)
            \o <<Op("Constant", 2)>> \o OpcodesOf(op2) \o <<Op0("Pop")>>

\* C27: the binary operators bind in the order Equality < Comparison < Term
\* < Factor and are left-associative: `1 OP1 2 OP2 3;` compiles, and its
\* code applies OP2 to 2 and 3 first exactly when OP2 is of a higher level
\* than OP1 (`1 + 2 * 3` is 1, 2, 3, Multiply, Add and `1 - 2 - 3` is 1, 2,
\* Subtract, 3, Subtract).
C27_BinaryPrecedence ==
    \A op1 \in BinaryTokens, op2 \in BinaryTokens :
        (src = BinarySrc(op1, op2) /\ CompileDone)
            => CompiledOk /\ MainCode = BinaryCode(op1, op2)

(***************************************************************************)
(* The compiler at the limits of its 16-bit and 8-bit operands: add_const,  *)
(* patch_jump and the parameter loop of parse_fun, each applied to compiler *)
(* states with few entries and with as many as the operand can count        *)
(***************************************************************************)
\* the largest of the small sizes
MaxSmall == 6

\* main's compiler after n statements `0;`: n constants, the code that
\* pushes and pops each
PoolChunk(n) ==
    [code |-> [i \in 1..(2 * n) |-> IF i % 2 = 1 THEN Op("Constant", ((i - 1) \div 2) % U16)
                                    ELSE Op0("Pop")],
     constants |-> [i \in 1..n |-> Number(0)],
     lines |-> [i \in 1..(2 * n) |-> 1]]

AtStatement(chunk) ==
    [main_compiler(<<>>, FALSE) EXCEPT !.fun.chunk = chunk,
                                       !.previous = T("Semicolon"),
                                       !.current = T("Eof")]

PoolSizes == 0..MaxSmall \cup {U16 - 1, U16}
PoolValues == {Number(7), String("x"), String("y")}

\* main's compiler in if_stmt, about to patch then_jump: the condition, the
\* JumpIfFalse at index 1, the Pop, a then-branch of statements `!nil;` and
\* `nil;`, and the Jump over the else branch; d is the distance from the
\* JumpIfFalse to the end of the chunk
ThenBranch(d, ins) ==
    [i \in 1..(d + 2) |->
        CASE i = 1 -> Op0("True")
          [] i = 2 -> ins
          [] i = 3 -> Op0("Pop")
          [] i = d + 2 -> Op("Jump", NoneVal)
          [] d % 2 = 1 /\ i = 5 -> Op0("Not")
          [] OTHER -> IF (i + d) % 2 = 0 THEN Op0("Nil") ELSE Op0("Pop")]

JumpChunk(d, ins) ==
    [code |-> ThenBranch(d, ins), constants |-> <<>>, lines |-> [i \in 1..(d + 2) |-> 1]]

JumpDistances == {2} \cup 4..(MaxSmall + 4) \cup {U16 - 1, U16, U16 + 1}

\* the compiler of `fun f(p1, ..., pn, q` after the comma: n parameters
\* declared, the next one is the current token
ParamName(i) == "p" \o ToString(i)
AtParameter(n, overflow_checks) ==
    [with_fun(main_compiler(<<T("RightParen"), T("LeftBrace"), T("RightBrace")>>,
                            overflow_checks),
              FunctionObj("f", n, ChunkNew))
        EXCEPT !.scope_depth = 1,
               !.locals = <<Local("", 0)>> \o [i \in 1..n |-> Local(ParamName(i), 1)],
               !.previous = T("Comma"),
               !.current = Ident("q")]

ParamCounts == 0..MaxSmall \cup {U8 - 2, U8 - 1}

InitLimits ==
    /\ src = <<>>
    /\ vm = VMNone
    /\ \/ /\ phase = "add_const"
          /\ \E n \in PoolSizes : comp = AtStatement(PoolChunk(n))
       \/ /\ phase = "patch_jump"
          /\ \E d \in JumpDistances, op \in {"JumpIfFalse", "Jump"} :
                comp = AtStatement(JumpChunk(d, Op(op, NoneVal)))
       \/ /\ phase = "parameter"
          /\ \E n \in ParamCounts, oc \in BOOLEAN : comp = AtParameter(n, oc)
    /\ scanner = ScannerNone

\* Compiler::add_const of a value
AddConst ==
    /\ phase = "add_const"
    /\ \E val \in PoolValues : comp' = add_const(comp, val)
    /\ phase' = "added"
    /\ UNCHANGED <<scanner, src, vm>>

\* Compiler::patch_jump of the jump at index 1
PatchJump ==
    /\ phase = "patch_jump"
    /\ comp' = patch_jump(comp, 1)
    /\ phase' = "patched"
    /\ UNCHANGED <<scanner, src, vm>>

\* parse_fun: the pass of the parameter loop over the current parameter
Parameter ==
    /\ phase = "parameter"
    /\ comp' = parse_params(comp)
    /\ phase' = "parameters_done"
    /\ UNCHANGED <<scanner, src, vm>>

NextLimits ==
    \/ AddConst
    \/ PatchJump
    \/ Parameter

SpecLimits == InitLimits /\ [][NextLimits]_vars

\* C28: add_const returns a 16-bit id under which the chunk holds the value
\* just added; a chunk that already holds 65 536 values gives no id: adding
\* to it fails and the id does not wrap around
AddConstStep ==
    AddConst =>
        LET pool == comp.fun.chunk.constants
            pool_after == comp'.fun.chunk.constants
        IN  IF Len(pool) < U16
            THEN /\ comp'.res = "Ok"
                 /\ Len(pool_after) = Len(pool) + 1
                 /\ comp'.id \in 0..(U16 - 1)
                 /\ pool_after[comp'.id + 1] = pool_after[Len(pool_after)]
            ELSE comp'.res = "Err"

C28_ConstantIdsDoNotWrap == [][AddConstStep]_vars

\* C29: patch_jump writes the distance from the jump to the end of the chunk
\* as the jump's operand; a distance above 65 535 is an error and the operand
\* is never the distance cut to 16 bits
PatchJumpStep ==
    PatchJump =>
        LET distance == chunk_len(comp) - 2
        IN  IF distance <= U16 - 1
            THEN comp'.res = "Ok" /\ comp'.fun.chunk.code[2].arg = distance
            ELSE comp'.res = "Err" /\ comp'.fun.chunk.code[2].arg = NoneVal

C29_JumpTooFarIsAnError == [][PatchJumpStep]_vars

\* C30: a parameter beyond the 255th is a compile error; the function's arity
\* is the number of its parameters and never overflows or wraps around
ParameterStep ==
    Parameter =>
        IF comp.fun.arity < U8 - 1
        THEN /\ comp'.res = "Ok"
             /\ comp'.fun.arity = comp.fun.arity + 1
             /\ comp'.fun.arity = Len(comp'.locals) - 1
        ELSE /\ comp'.res = "Err"
             /\ comp'.fun.arity = U8 - 1

C30_TooManyParametersIsAnError == [][ParameterStep]_vars

(***************************************************************************)
(* The interpreter on source text: the scanner, one action per pass of the *)
(* loops of skip_whitespace and one for the rest of scan_token, delivers   *)
(* the tokens; Compiler::compile then compiles them.  The compiler asks    *)
(* for a token when it needs one and goes on asking until it has seen Eof  *)
(* (and once more when synchronize runs at the end of input); the scanner  *)
(* does not depend on the compiler, so the tokens are the same when they   *)
(* are all scanned first.                                                  *)
(***************************************************************************)
\* the most characters after the opening of a source text
MaxText == 4

\* how far past the end of the source the counter `current` is followed
MaxOverrun == 2

TextChars == {"a", "/", " ", "\n", ";"}

\* `a / b`
TextSlash == <<"a", " ", "/", " ", "b">>

TextOpenings == {<<>>, TextSlash}

Texts == {o \o t : o \in TextOpenings, t \in UNION {[1..k -> TextChars] : k \in 0..MaxText}}

Blanks == {" ", "\r", "\t"}

Scanning == phase \in {"scan", "comment"}

LastReturned == scanner.returned[Len(scanner.returned)]

\* the tokens the scanner has delivered up to Eof
TokensOf(returned) == SelectSeq(returned, LAMBDA t : t.kind # "Eof")

InitText ==
    /\ src \in Texts
    /\ scanner = ScannerNew(src)
    /\ phase = "scan"
    /\ comp = main_compiler(<<>>, FALSE)
    /\ vm = VMNone

\* skip_whitespace: one pass of its loop over a blank, a newline or a `/`.
\* A `/` that no second `/` follows ends scan_token with an Err; a `//`
\* enters the loop over the comment.
ScanWhitespace ==
    /\ phase = "scan"
    /\ scanner_peek(scanner) \in Blanks \cup {"\n", "/"}
    /\ LET ch == scanner_peek(scanner)
           a == scanner_advance(scanner)
           m == match_next(a, "/")
       IN  CASE ch \in Blanks -> scanner' = a /\ phase' = "scan"
             [] ch = "\n" -> scanner' = [a EXCEPT !.line = @ + 1] /\ phase' = "scan"
             [] ch = "/" /\ m.flag -> scanner' = m /\ phase' = "comment"
             [] ch = "/" /\ ~m.flag ->
                    /\ scanner' = Returned(scanner_error(m, "Unexpected character"))
                    /\ phase' = "scan"
    /\ UNCHANGED <<src, comp, vm>>

\* skip_whitespace: one pass of `while self.peek() != Some(b'\n') {
\* self.advance(); }`, or its exit at a newline.  Past the end of the source
\* advance only counts; the count is followed up to MaxOverrun.
ScanComment ==
    /\ phase = "comment"
    /\ IF scanner_peek(scanner) # "\n"
       THEN /\ scanner' = IF scanner.current < Len(scanner.source) + MaxOverrun
                          THEN scanner_advance(scanner) ELSE scanner
            /\ phase' = "comment"
       ELSE /\ scanner' = scanner
            /\ phase' = "scan"
    /\ UNCHANGED <<src, comp, vm>>

\* scan_token once skip_whitespace has returned Ok.  After the second Eof
\* the compiler starts on the tokens that were delivered.
ScanLexeme ==
    /\ phase = "scan"
    /\ scanner_peek(scanner) \notin Blanks \cup {"\n", "/"}
    /\ scanner' = Returned(scan_lexeme(scanner))
    /\ IF scanner.returned # <<>> /\ LastReturned.kind = "Eof"
       THEN /\ phase' = "compile"
            /\ comp' = main_compiler(TokensOf(scanner'.returned), FALSE)
       ELSE /\ phase' = "scan"
            /\ comp' = comp
    /\ UNCHANGED <<src, vm>>

NextText ==
    \/ ScanWhitespace
    \/ ScanComment
    \/ ScanLexeme
    \/ CompileAdvance
    \/ CompileDeclaration
    \/ CompileFinish

SpecText == InitText /\ [][NextText]_vars /\ WF_vars(NextText)

\* a call of scan_token returns in this step
Returns == scanner'.returned # scanner.returned
ReturnedNext == scanner'.returned[Len(scanner'.returned)]

\* a call made when the input is exhausted returns Eof, and so does every
\* call after a call that has returned Eof
EofStep ==
    (Returns /\ \/ scanner.current >= Len(scanner.source)
                \/ scanner.returned # <<>> /\ LastReturned.kind = "Eof")
        => ReturnedNext.kind = "Eof"

\* C33: every call of scan_token returns, however the source ends, so the
\* scanner comes to the end of every source; a call made when the input is
\* exhausted returns Eof, and so does every later call
C33_ScanTokenReturns == <>(~Scanning) /\ [][EofStep]_vars

\* the scanner is at a `/` that no second `/` follows
AtSlash ==
    /\ phase = "scan"
    /\ scanner_peek(scanner) = "/"
    /\ scanner_peek(scanner_advance(scanner)) # "/"

SlashStep == AtSlash => Returns /\ ReturnedNext.kind = "Slash"

\* C36: a `/` that no second `/` follows is scanned as the token Slash, and
\* `a / b;` compiles to the code for a, the code for b, Divide
C36_SlashIsDivide ==
    /\ [][SlashStep]_vars
    /\ [](src = TextSlash \o <<";">> /\ phase \in {"compile_ok", "compile_err", "compile_panic"}
            => /\ phase = "compile_ok"
               /\ MainCode = <<Op("GetGlobal", 0), Op("GetGlobal", 1), Op0("Divide"),
                               Op0("Pop")>>)

(***************************************************************************)
(* The chunk under the calls the compiler makes on it, in any order:       *)
(* emit_ins (write_ins), add_const for a name, the instruction that names  *)
(* a global by an id add_const has returned, emit_const_ins                *)
(* (add_const_ins), emit_jump and patch_jump.  src is the history of the   *)
(* calls made.                                                             *)
(***************************************************************************)
\* the most calls on a chunk
MaxCalls == 4

PlainOps == {Op0("Pop"), Op("GetLocal", 1)}
GlobalOps == {"DefineGlobal", "GetGlobal", "SetGlobal"}
JumpOps == {"Jump", "JumpIfFalse"}
ConstOps == GlobalOps \cup {"Constant"}

\* the chunk after n calls of add_const and no other call
ConstantsOnly(n) == [ChunkNew EXCEPT !.constants = [i \in 1..n |-> Number(0)]]

\* the chunk is new, or add_const has filled its pool to the 16-bit limit
\* and two more calls are made (src then keeps the last calls only)
InitChunk ==
    /\ \/ /\ src = <<>>
          /\ comp = AtStatement(ChunkNew)
       \/ /\ src = [i \in 1..(MaxCalls - 2) |-> "add_const"]
          /\ comp = AtStatement(ConstantsOnly(U16))
    /\ phase = "compile"
    /\ vm = VMNone
    /\ scanner = ScannerNone

Called(name) ==
    /\ Len(src) < MaxCalls
    /\ src' = Append(src, name)
    /\ UNCHANGED <<phase, vm, scanner>>

\* ids that add_const has returned for names
NameIds ==
    {(i - 1) % U16 : i \in {j \in 1..Len(comp.fun.chunk.constants) :
                              comp.fun.chunk.constants[j].t = "String"}}

UnresolvedAt ==
    {i \in 0..(chunk_len(comp) - 1) : UnresolvedJump(comp.fun.chunk.code[i + 1])}

\* emit_ins -> write_ins of an instruction without a constant operand
ChunkWrite ==
    /\ \E ins \in PlainOps : comp' = emit_ins(comp, ins)
    /\ Called("write_ins")

\* write_ident_constant -> add_const
ChunkAddConst ==
    /\ \E name \in {"a"} : comp' = write_ident_constant(comp, name)
    /\ Called("add_const")

\* emit_ins of the instruction that names a global by an id add_const returned
ChunkGlobal ==
    /\ \E id \in NameIds, op \in GlobalOps : comp' = emit_ins(comp, Op(op, id))
    /\ Called("write_ins")

\* emit_const_ins -> add_const_ins
ChunkAddConstIns ==
    /\ \E value \in {Number(1)} : comp' = emit_const_ins(comp, value)
    /\ Called("add_const_ins")

\* emit_jump
ChunkJump ==
    /\ \E op \in JumpOps : comp' = emit_jump(comp, Op(op, NoneVal))
    /\ Called("emit_jump")

\* patch_jump of a jump that emit_jump has written and that is not yet patched
ChunkPatch ==
    /\ \E index \in UnresolvedAt : comp' = patch_jump(comp, index)
    /\ Called("patch_jump")

NextChunk ==
    \/ ChunkWrite
    \/ ChunkAddConst
    \/ ChunkGlobal
    \/ ChunkAddConstIns
    \/ ChunkJump
    \/ ChunkPatch

SpecChunk == InitChunk /\ [][NextChunk]_vars

WellFormed ==
    LET chunk == comp.fun.chunk IN
    /\ Len(chunk.code) = Len(chunk.lines)
    /\ \A i \in 1..Len(chunk.code) :
          chunk.code[i].op \in ConstOps
              => chunk.code[i].arg \in 0..(Len(chunk.constants) - 1)

\* what is written stays as it is, but for an unresolved jump that patch_jump
\* gives an offset
WrittenStays ==
    LET code == comp.fun.chunk.code
        after == comp'.fun.chunk.code
    IN  /\ Len(after) >= Len(code)
        /\ \A i \in 1..Len(code) :
              \/ after[i] = code[i]
              \/ /\ src' = Append(src, "patch_jump")
                 /\ UnresolvedJump(code[i])
                 /\ after[i].op = code[i].op
                 /\ after[i].arg \in 0..(U16 - 1)

\* C31: under every sequence of the calls, code and lines have the same
\* length, every operand that names a constant is below the length of the
\* chunk's pool, and an instruction once written changes only when patch_jump
\* gives an unresolved jump its offset
C31_ChunkWellFormed == []WellFormed /\ [][WrittenStays]_vars

\* C31's case: after MaxCalls calls the chunk holds a patched jump behind an
\* instruction that names a global
C31_Witness ==
    /\ Len(src) = MaxCalls
    /\ src[MaxCalls] = "patch_jump"
    /\ chunk_len(comp) = 2
    /\ comp.fun.chunk.code[1].op \in GlobalOps
    /\ comp.fun.chunk.code[2].op \in JumpOps
    /\ comp.fun.chunk.code[2].arg = 0

(***************************************************************************)
(* The VM on programs that declare functions and call them.  The entry     *)
(* function is what fun_decl, variable, call and argument_list emit for    *)
(* the declarations and for the call statements; the functions are what    *)
(* compile_fun makes of their declarations, which ends a function's chunk  *)
(* with the last statement of its body.                                    *)
(***************************************************************************)
\* the most call statements in one program
MaxCallStmts == 2

\* fun id(x) { return x; }          fun none() { return nil; }
\* fun nest(x) { return id(x); }    fun noret() {}
\* fun show(x) { print x; }
CallFunctions ==
    <<FunId,
      FunNone,
      FunctionObj("nest", 1,
          ChunkOf(<<Op("GetGlobal", 0), Op("GetLocal", 1), Op("Call", 1), Op0("Return")>>,
                  <<String("id")>>)),
      FunctionObj("noret", 0, ChunkNew),
      FunctionObj("show", 1, ChunkOf(<<Op("GetLocal", 1), Op0("Print")>>, <<>>))>>

\* fun_decl: the name's constant, Constant Function(id), DefineGlobal
DeclOf(chunk, id) ==
    LET named == [chunk EXCEPT !.constants = Append(@, String(CallFunctions[id + 1].name))]
        made == [named EXCEPT !.constants = Append(@, Function(id))]
    IN  write_ins(write_ins(made, Op("Constant", Len(named.constants)), 1),
                  Op("DefineGlobal", Len(chunk.constants)), 1)

\* expression_stmt of `callee(1, ..);` with arg_count arguments: the callee
\* (variable, or number for a callee that is no function), the arguments,
\* Call, Pop
CallOf(chunk, callee, arg_count) ==
    LET named == [chunk EXCEPT !.constants = Append(@, callee)]
        loaded == write_ins(named, Op(IF callee.t = "String" THEN "GetGlobal" ELSE "Constant",
                                      Len(chunk.constants)), 1)
        args == IF arg_count = 0 THEN loaded
                ELSE write_ins([loaded EXCEPT !.constants = Append(@, Number(1))],
                               Op("Constant", Len(loaded.constants)), 1)
    IN  write_ins(write_ins(args, Op("Call", arg_count), 1), Op0("Pop"), 1)

\* id(1);  id();  none();  nest(1);  noret();  show(1);  1();
CallStatements ==
    {<<String("id"), 1>>, <<String("id"), 0>>, <<String("none"), 0>>,
     <<String("nest"), 1>>, <<String("noret"), 0>>, <<String("show"), 1>>,
     <<Number(1), 0>>}

RECURSIVE DeclsOf(_)
DeclsOf(n) == IF n = 0 THEN ChunkNew ELSE DeclOf(DeclsOf(n - 1), n - 1)

RECURSIVE CallsOf(_)
CallsOf(stmts) ==
    IF stmts = <<>> THEN DeclsOf(Len(CallFunctions))
    ELSE LET last == stmts[Len(stmts)] IN
         CallOf(CallsOf(SubSeq(stmts, 1, Len(stmts) - 1)), last[1], last[2])

CallPrograms == UNION {[1..k -> CallStatements] : k \in 1..MaxCallStmts}

\* interpret after compile: VM::with_code((main, functions))
InitCalls ==
    /\ src \in CallPrograms
    /\ comp = main_compiler(<<>>, FALSE)
    /\ vm = with_code(FunctionObj(MAIN_FUNC_NAME, 0, CallsOf(src)), CallFunctions, FALSE)
    /\ phase = "run"
    /\ scanner = ScannerNone

SpecCalls == InitCalls /\ [][NextVM]_vars

MainId == Len(vm.functions) - 1

FrameDiscipline ==
    /\ Len(vm.frames) >= 1
    /\ vm.frames[1].fun_id = MainId
    /\ vm.frames[1].stack_start = 0
    /\ get_fun(vm, MainId).name = MAIN_FUNC_NAME
    /\ \A i \in 1..Len(vm.frames) :
          /\ vm.frames[i].stack_start < Len(vm.stack)
          /\ vm.stack[vm.frames[i].stack_start + 1] = Function(vm.frames[i].fun_id)
    /\ \A i \in 1..(Len(vm.frames) - 1) :
          vm.frames[i].stack_start < vm.frames[i + 1].stack_start

C35_CallsReturn ==
    [](phase = "run_ok" => Len(vm.frames) = 1 /\ vm.frames[1].fun_id = MainId /\ vm_is_at_end(vm))

(***************************************************************************)
(* if_stmt from the patch of then_jump on, and the run of what it made.    *)
(* The statement is `if (COND) { FIRST nil; nil; ... }` with COND true or  *)
(* nil and FIRST `!nil;` or `-nil;`; src is the history of patch_jump:     *)
(* the index of each jump patched and the chunk's length at the patch.     *)
(***************************************************************************)
\* the code when if_stmt has emitted else_jump: the condition, then_jump at
\* index 1, Pop, the then-branch and else_jump; d is the distance from
\* then_jump to the end of the chunk
IfBranch(d, cond, first) ==
    [i \in 1..(d + 2) |->
        CASE i = 1 -> cond
          [] i = 2 -> Op("JumpIfFalse", NoneVal)
          [] i = 3 -> Op0("Pop")
          [] i = 4 -> Op0("Nil")
          [] i = 5 -> first
          [] i = 6 -> Op0("Pop")
          [] i = d + 2 -> Op("Jump", NoneVal)
          [] d % 2 = 0 /\ i = 8 -> Op0("Not")
          [] OTHER -> IF (i + d) % 2 = 0 THEN Op0("Nil") ELSE Op0("Pop")]

IfChunk(d, cond, first) ==
    [code |-> IfBranch(d, cond, first), constants |-> <<>>, lines |-> [i \in 1..(d + 2) |-> 1]]

\* the distances of a then-branch of whole statements
IfDistances == {5, 7} \cup 8..(MaxSmall + 4)
IfFarDistances == {U16 - 1, U16, U16 + 1}

InitJumps ==
    /\ src = <<>>
    /\ vm = VMNone
    /\ phase = "patch_jump"
    /\ \/ \E d \in IfDistances, cond \in {Op0("True"), Op0("Nil")},
             first \in {Op0("Not"), Op0("Negate")} :
                comp = AtStatement(IfChunk(d, cond, first))
       \/ \E d \in IfFarDistances :
                comp = AtStatement(IfChunk(d, Op0("Nil"), Op0("Negate")))
    /\ scanner = ScannerNone

Patched(index) == [index |-> index, target |-> chunk_len(comp)]

\* if_stmt: self.patch_jump(then_jump); self.emit_ins(OpCode::Pop)
IfPatchThen ==
    /\ phase = "patch_jump"
    /\ comp' = emit_ins(patch_jump(comp, 1), Op0("Pop"))
    /\ src' = Append(src, Patched(1))
    /\ phase' = "patched"
    /\ UNCHANGED <<vm, scanner>>

\* if_stmt without else: self.patch_jump(else_jump); compile then sees Eof
IfPatchElse ==
    /\ phase = "patched"
    /\ comp' = patch_jump(comp, chunk_len(comp) - 2)
    /\ src' = Append(src, Patched(chunk_len(comp) - 2))
    /\ phase' = IF comp'.res = "Ok" THEN "compile_ok" ELSE "compile_panic"
    /\ UNCHANGED <<vm, scanner>>

NextJumps ==
    \/ IfPatchThen
    \/ IfPatchElse
    \/ VMStart
    \/ VMStep
    \/ VMFinish

SpecJumps == InitJumps /\ [][NextJumps]_vars

JumpTaken ==
    /\ Running
    /\ \/ NextIns.op = "Jump"
       \/ NextIns.op = "JumpIfFalse" /\ ~is_truthy(peek_stack(vm, 0))

\* the VM takes a jump that patch_jump patched and is then at the length
\* the chunk had at the patch
JumpLands ==
    JumpTaken /\ vm' # vm =>
        \E i \in 1..Len(src) : src[i].index = vm_ip(vm) /\ vm_ip(vm') = src[i].target

\* C34: a forward jump that patch_jump patched when the chunk had length t
\* makes the VM go on at instruction t
C34_JumpTargetsAgree == [][JumpLands]_vars

(***************************************************************************)
(* end_scope and the locals it inspects                                    *)
(***************************************************************************)
\* C37: whenever block is about to call end_scope, every local on the
\* compiler's locals stack has a depth that is Some: no local is left
\* declared and not defined
C37_LocalsDefinedAtEndScope ==
    [](Leaving => \A i \in 1..Len(comp.locals) : comp.locals[i].depth # NoneVal)

(***************************************************************************)
(* The instruction pointers of a run                                       *)
(***************************************************************************)
Started == phase \in {"run", "run_ok", "runtime_err"}

IpInChunk ==
    Started =>
        \A i \in 1..Len(vm.frames) :
            /\ get_fun_ok(vm, vm.frames[i].fun_id)
            /\ vm.frames[i].ip \in 0..Len(get_fun(vm, vm.frames[i].fun_id).chunk.code)

\* Loop is executed after advance has counted it: ip is then vm_ip + 1
LoopStep == Running /\ NextIns.op = "Loop" => NextIns.arg <= vm_ip(vm) + 1

\* C38: while a compiled program runs, every frame's ip is between 0 and the
\* length of the frame's chunk, and a Loop never subtracts more than ip
C38_IpInChunk == []IpInChunk /\ [][LoopStep]_vars

\* C38's case: a Loop has taken the VM back to the start of the loop after
\* the first pass of `while (i < 2)`
C38_Witness ==
    /\ src = WhileSrc(2)
    /\ phase = "run"
    /\ vm.stdout = <<"0">>
    /\ \E j \in 1..Len(MainCode) : MainCode[j].op = "Loop" /\ vm_ip(vm) = j - MainCode[j].arg

(***************************************************************************)
(* Function ids                                                            *)
(***************************************************************************)
\* the name after the k-th `fun` of the program
FunNameAt(k) ==
    src[(CHOOSE i \in FunAt : Cardinality({j \in FunAt : j < i}) = k - 1) + 1].lex

FunctionConstants(chunk) == SelectSeq(chunk.constants, LAMBDA v : v.t = "Function")

\* the compiler's Function constants are the ids 0, 1, ... of its table in
\* the order of the declarations
IdsInOrder ==
    phase # "compile_panic" =>
        /\ Len(FunctionConstants(comp.fun.chunk)) = Len(comp.functions)
        /\ \A k \in 1..Len(comp.functions) :
              /\ FunctionConstants(comp.fun.chunk)[k] = Function(k - 1)
              /\ comp.functions[k].name = FunNameAt(k)
              /\ FunctionConstants(comp.functions[k].chunk) = <<>>

\* the VM's table, its entry function (the bottom frame's, as long as a
\* top-level return has not ended the run) and the ids in its chunks
IdsInTable ==
    Started =>
        /\ Len(vm.functions) = Len(comp.functions) + 1
        /\ \A k \in 1..Len(comp.functions) : vm.functions[k] = comp.functions[k]
        /\ vm.functions[Len(vm.functions)] = comp.fun
        /\ comp.fun.name = MAIN_FUNC_NAME
        /\ vm.frames # <<>> => vm.frames[1].fun_id = Len(vm.functions) - 1
        /\ \A f \in 1..Len(vm.functions) :
              \A k \in 1..Len(vm.functions[f].chunk.constants) :
                  vm.functions[f].chunk.constants[k].t = "Function"
                      => vm.functions[f].chunk.constants[k].n < Len(vm.functions)

\* C39: the Function ids the compiler emits are 0, 1, ... in the order of
\* the declarations, each the index of the function compiled from its
\* declaration, all below the length of the VM's table, and the VM's entry
\* function is <Main>
C39_FunctionIds == [](IdsInOrder /\ IdsInTable)

\* C39's case: `fun f() { } fun g() { }` has run
C39_Witness ==
    /\ src = FunTwo
    /\ phase = "run_ok"
    /\ FunctionConstants(comp.fun.chunk) = <<Function(0), Function(1)>>
    /\ vm.functions[1].name = "f"
    /\ vm.functions[2].name = "g"
    /\ vm.functions[3].name = MAIN_FUNC_NAME
    /\ vm.frames[1].fun_id = 2

(***************************************************************************)
(* The loop of Compiler::compile                                           *)
(***************************************************************************)
\* the tokens that the loop of compile has not yet passed: the current one,
\* unless it is Eof, and those the scanner still holds
Remaining(c) == Len(c.toks) + (IF c.current.kind = "Eof" THEN 0 ELSE 1)

PassReturns == CompileDeclaration => comp'.res # "Panic"
PassConsumes == CompileDeclaration /\ comp'.res # "Panic" => Remaining(comp') < Remaining(comp)

\* C40: every pass of the loop of compile, whether its declaration succeeds
\* or fails and goes through synchronize, returns to the loop with at least
\* one token fewer to compile, so the loop reaches Eof and compile returns
C40_CompileTerminates == [][PassReturns /\ PassConsumes]_vars

=============================================================================
